---------------------------- MODULE Spec2Model ----------------------------
(***************************************************************************)
(* State-machine model of the RISC-V virtual-memory layer of the kernel:   *)
(* src/arch/riscv/kernel/vspace.c (page-table walker, ASID registry, MMU   *)
(* invocation decode and perform).                                         *)
(*                                                                         *)
(* Physical memory is an array of pages, each an array of machine words;   *)
(* page tables and frames live in the same memory, so a walk that follows  *)
(* a leaf entry reads (and a write through it changes) the frame's words.  *)
(* Pointers are integers: a kernel pointer is the physical address plus    *)
(* the kernel-window offset.  A PTE is the integer value of its word.      *)
(***************************************************************************)
EXTENDS Integers, Sequences, FiniteSets, TLC

(***************************************************************************)
(* Bounds of the model (scaled-down widths and input ranges).              *)
(***************************************************************************)
\* index bits translated per page-table level (9 on Sv39, 10 on Sv32)
PT_INDEX_BITS == 1
\* low ASID bits: an ASID pool has 2^asidLowBits slots
asidLowBits == 1
\* high ASID bits: the ASID table has 2^asidHighBits pools
asidHighBits == 1
\* longest run checked: the number of state-changing invocations made
MaxInvocations == 6

(***************************************************************************)
(* Program constants.                                                      *)
(***************************************************************************)
CONFIG_PT_LEVELS == 2
seL4_PageBits == 12
seL4_PageTableBits == 12
PTE_PPN_SHIFT == 10
asidInvalid == 0
physBase == 0
NULL == 0

BIT(n) == 2 ^ n
\* x >> n and x << n on non-negative words
SHR(x, n) == x \div (2 ^ n)
SHL(x, n) == x * (2 ^ n)
\* x & MASK(n)
LOWBITS(x, n) == x % (2 ^ n)

nASIDPools == BIT(asidHighBits)
PTEntries == BIT(PT_INDEX_BITS)
\* number of virtual-address bits the page-table hierarchy translates
VABits == PT_INDEX_BITS * CONFIG_PT_LEVELS + seL4_PageBits
\* the kernel window is the upper half of the top-level table
kernelBase == BIT(VABits - 1)
\* PPTR_BASE_OFFSET: kernel pointer = physical address + offset
PPTR_BASE_OFFSET == kernelBase - physBase

ptrFromPAddr(paddr) == paddr + PPTR_BASE_OFFSET
addrFromPPtr(pptr) == pptr - PPTR_BASE_OFFSET

RISCV_GET_LVL_PGSIZE_BITS(n) == PT_INDEX_BITS * (CONFIG_PT_LEVELS - n) + seL4_PageBits
RISCV_GET_LVL_PGSIZE(n) == BIT(RISCV_GET_LVL_PGSIZE_BITS(n))
RISCV_GET_PT_INDEX(addr, n) == LOWBITS(SHR(addr, RISCV_GET_LVL_PGSIZE_BITS(n)), PT_INDEX_BITS)

pageBitsForSize(sz) ==
    IF sz = "RISCV_4K_Page" THEN seL4_PageBits
    ELSE seL4_PageBits + PT_INDEX_BITS

RISCVpageAtPTLevel(sz) ==
    IF sz = "RISCV_4K_Page" THEN CONFIG_PT_LEVELS
    ELSE CONFIG_PT_LEVELS - 1

(***************************************************************************)
(* The PTE word: valid(1) read(1) write(1) execute(1) user(1) global(1)    *)
(* accessed(1) dirty(1) sw(2) ppn(rest).                                   *)
(***************************************************************************)
B2N(b) == IF b THEN 1 ELSE 0

pte_new(ppn, sw, dirty, accessed, global, user, execute, write, read, valid) ==
    SHL(ppn, PTE_PPN_SHIFT) + SHL(sw, 8) + SHL(dirty, 7) + SHL(accessed, 6)
    + SHL(global, 5) + SHL(user, 4) + SHL(execute, 3) + SHL(write, 2)
    + SHL(read, 1) + valid

pte_get_valid(w) == LOWBITS(w, 1)
pte_get_read(w) == LOWBITS(SHR(w, 1), 1)
pte_get_write(w) == LOWBITS(SHR(w, 2), 1)
pte_get_execute(w) == LOWBITS(SHR(w, 3), 1)
pte_get_user(w) == LOWBITS(SHR(w, 4), 1)
pte_get_global(w) == LOWBITS(SHR(w, 5), 1)
pte_get_ppn(w) == SHR(w, PTE_PPN_SHIFT)

pte_pte_invalid_new == 0

\* (pte->words[0] & 0xf) == 1
isValidHWPageTable(w) == LOWBITS(w, 4) = 1

\* the pointer a PTE word yields when followed as a next-level table
getPPtrFromHWPTE(w) == ptrFromPAddr(SHL(SHR(w, PTE_PPN_SHIFT), seL4_PageTableBits))

(***************************************************************************)
(* vm_rights_t and the rights helpers.                                     *)
(***************************************************************************)
VMRights == {"VMNoAccess", "VMKernelOnly", "VMReadOnly", "VMReadWrite", "VMWriteOnly"}

RISCVGetWriteFromVMRights(vm_rights) ==
    B2N((vm_rights # "VMNoAccess") /\ (vm_rights # "VMReadOnly"))

RISCVGetUserFromVMRights(vm_rights) == B2N(vm_rights # "VMKernelOnly")

RISCVGetReadFromVMRights(vm_rights) ==
    B2N((vm_rights # "VMNoAccess") /\ (vm_rights # "VMWriteOnly"))

\* cap_rights_mask is a record [capAllowRead, capAllowWrite]
maskVMRights(vm_rights, cap_rights_mask) ==
    IF vm_rights = "VMNoAccess" THEN "VMNoAccess"
    ELSE IF vm_rights = "VMReadOnly" /\ cap_rights_mask.capAllowRead THEN "VMReadOnly"
    ELSE IF vm_rights = "VMReadWrite"
            /\ (cap_rights_mask.capAllowRead \/ cap_rights_mask.capAllowWrite)
         THEN IF ~cap_rights_mask.capAllowWrite THEN "VMReadOnly"
              ELSE IF ~cap_rights_mask.capAllowRead THEN "VMWriteOnly"
              ELSE "VMReadWrite"
    ELSE IF vm_rights = "VMWriteOnly" /\ cap_rights_mask.capAllowWrite THEN "VMWriteOnly"
    ELSE IF vm_rights = "VMKernelOnly" THEN "VMKernelOnly"
    ELSE "VMNoAccess"

\* a faulty makeUserPTE: the execute bit is never set
makeUserPTE_noExecute(paddr, executable, vm_rights) ==
    pte_new(SHR(paddr, seL4_PageBits), 0, 1, 1, 0,
            RISCVGetUserFromVMRights(vm_rights),
            0,
            RISCVGetWriteFromVMRights(vm_rights),
            RISCVGetReadFromVMRights(vm_rights),
            1)

makeUserPTE(paddr, executable, vm_rights) ==
    pte_new(SHR(paddr, seL4_PageBits), 0, 1, 1, 0,
            RISCVGetUserFromVMRights(vm_rights),
            B2N(executable),
            RISCVGetWriteFromVMRights(vm_rights),
            RISCVGetReadFromVMRights(vm_rights),
            1)

checkVPAlignment(sz, w) == LOWBITS(w, pageBitsForSize(sz)) = 0


(***************************************************************************)
(* Physical memory layout of the modelled objects (page numbers).          *)
(***************************************************************************)
\* kernel_pageTables[0], the kernel's global top-level table
KernelPTPage == SHR(physBase, seL4_PageBits)
\* page-table objects (retyped from untyped memory, zeroed)
PTPages == {1, 2, 3}
\* 4KiB frames
SmallFramePages == {5, 6}
\* a mega-page frame (aligned to a level-1 page)
MegaFramePages == {8}
FramePages == SmallFramePages \cup MegaFramePages
\* untyped regions of ASID-pool size
PoolPages == {10, 11}

\* the pages the kernel window's level-1 entries point at
KernelWindowPages == {SHR(physBase + RISCV_GET_LVL_PGSIZE(1) * i, seL4_PageBits) :
                        i \in 0 .. (PTEntries \div 2) - 1}
\* the pages of physical memory whose words are modelled
Pages == (0 .. 8) \cup KernelWindowPages

PagePtr(p) == ptrFromPAddr(SHL(p, seL4_PageBits))
PageOf(pptr) == SHR(addrFromPPtr(pptr), seL4_PageBits)

PoolPtrs == {PagePtr(p) : p \in PoolPages}
\* capability slots that can receive an ASID-pool capability
PoolSlots == {1, 2}

NoFault == [type |-> "none", bits |-> 0]
lookup_fault_invalid_root_new == [type |-> "invalid_root", bits |-> 0]
lookup_fault_missing_capability_new(bits) == [type |-> "missing_capability", bits |-> bits]
NoError == [type |-> "none", num |-> 0]
SyscallError(type, num) == [type |-> type, num |-> num]
NullCap == [capType |-> "cap_null_cap"]
\* no invocation is in progress: the thread is at user level
NoRet == [capType |-> "cap_null_cap", label |-> "none", obj |-> 0,
          status |-> "EXCEPTION_NONE"]

VARIABLES
    mem,                    \* physical memory: page -> index -> word
    ptCaps,                 \* page-table capability slots, by object
    frameCaps,              \* frame capability slots, by object
    poolCaps,               \* slots holding ASID-pool capabilities
    untypedHasChildren,     \* untyped caps that have been retyped
    riscvKSASIDTable,       \* ASID table: pool index -> pool pointer or NULL
    asidPools,              \* ASID pool memory: pool pointer -> array of roots
    current_syscall_error,  \* syscall error relay
    current_lookup_fault,   \* lookup fault relay
    ret,                    \* the invocation being replied to: label, object, exception_t
    ksCurThreadState,       \* state of the invoking thread
    msgRegister0,           \* first message register of the invoking thread
    halted,                 \* a kernel assertion has failed
    nInvocations,           \* invocations so far that changed kernel objects
    debug,                  \* assertions are compiled in (debug build)
    tcbVTable,              \* capability in the tcbVTable slot of ksCurThread
    satp,                   \* hardware translation root register: root, asid
    tlb,                    \* ASIDs that tag entries of the translation cache
    regs,                   \* registers of the current thread: SEPC, NEXTPC
    current_fault,          \* fault relay
    kImages,                \* kernel images: kiRoot, kiASID, kiStackInitted
    kiStacks,               \* private stack region of each kernel image
    ki                      \* the Arch_setKernelImage call in progress

vars == <<mem, ptCaps, frameCaps, poolCaps, untypedHasChildren, riscvKSASIDTable,
          asidPools, current_syscall_error, current_lookup_fault, ret,
          ksCurThreadState, msgRegister0, halted, nInvocations, debug,
          tcbVTable, satp, tlb, regs, current_fault, kImages, kiStacks, ki>>

\* the state of the fault path and of the kernel images
kiVars == <<regs, current_fault, kImages, kiStacks, ki>>

ZeroPage == [i \in 0 .. PTEntries - 1 |-> 0]

\* map_kernel_window: the kernel window entries of the global top-level table
map_kernel_window ==
    [i \in 0 .. PTEntries - 1 |->
        IF i >= RISCV_GET_PT_INDEX(kernelBase, 1)
        THEN pte_new(SHR(physBase + RISCV_GET_LVL_PGSIZE(1)
                                     * (i - RISCV_GET_PT_INDEX(kernelBase, 1)),
                         seL4_PageBits),
                     0, 1, 1, 1, 0, 1, 1, 1, 1)
        ELSE 0]

cap_page_table_cap_new(asid, base, isMapped, vaddr) ==
    [capType |-> "cap_page_table_cap", capPTBasePtr |-> base, capPTIsMapped |-> isMapped,
     capPTMappedASID |-> asid, capPTMappedAddress |-> vaddr]

cap_frame_cap_new(asid, base, size, rights, vaddr) ==
    [capType |-> "cap_frame_cap", capFBasePtr |-> base, capFSize |-> size,
     capFVMRights |-> rights, capFMappedASID |-> asid, capFMappedAddress |-> vaddr]

cap_asid_pool_cap_new(base, pool) ==
    [capType |-> "cap_asid_pool_cap", capASIDBase |-> base, capASIDPool |-> pool]

\* kernel images
Images == {1, 2}
\* the kernel stack: byte addresses of its words below kernelStackBase
StackWords == 3
kernelStackBase == SHL(StackWords, 3)
StackAddrs == {SHL(w, 3) : w \in 0 .. StackWords - 1}
seL4_Fault_NullFault == [type |-> "seL4_Fault_NullFault"]
\* no Arch_setKernelImage is in progress
KIIdle == [pc |-> "idle", image |-> 0, stack_p |-> 0, image_p |-> 0, sp |-> 0,
           fenced |-> FALSE]

\* the translation root register after a write of root addr with asid
setVSpaceRoot(addr, asid) == [root |-> addr, asid |-> asid]

\* the access rights the frame capabilities were created with
FrameRights(p) == IF p = 6 THEN "VMReadOnly" ELSE "VMReadWrite"

\* the state after boot, but for the contents of memory
InitRest ==
    /\ ptCaps = [p \in PTPages |-> cap_page_table_cap_new(asidInvalid, PagePtr(p), 0, 0)]
    /\ frameCaps = [p \in FramePages |->
                      cap_frame_cap_new(asidInvalid, PagePtr(p),
                                        IF p \in MegaFramePages THEN "RISCV_Mega_Page"
                                                                ELSE "RISCV_4K_Page",
                                        FrameRights(p), 0)]
    /\ poolCaps = [s \in PoolSlots |-> NullCap]
    /\ untypedHasChildren = [p \in PoolPages |-> FALSE]
    /\ riscvKSASIDTable = [i \in 0 .. nASIDPools - 1 |-> NULL]
    /\ asidPools = [p \in PoolPtrs |-> [i \in 0 .. BIT(asidLowBits) - 1 |-> NULL]]
    /\ current_syscall_error = NoError
    /\ current_lookup_fault = NoFault
    /\ ret = NoRet
    /\ ksCurThreadState = "ThreadState_Running"
    /\ msgRegister0 = 0
    /\ halted = FALSE
    /\ nInvocations = 0
    /\ debug \in BOOLEAN
    /\ tcbVTable = NullCap
    /\ satp = setVSpaceRoot(addrFromPPtr(PagePtr(KernelPTPage)), 0)
    /\ tlb = {}
    /\ regs = [SEPC |-> 0, NEXTPC |-> 0]
    /\ current_fault = seL4_Fault_NullFault
    /\ kImages = [i \in Images |-> [kiRoot |-> NULL, kiASID |-> i, kiStackInitted |-> FALSE]]
    /\ kiStacks = [i \in Images |-> [a \in StackAddrs |-> 0]]
    /\ ki = KIIdle

Init ==
    /\ mem = [p \in Pages |-> IF p = KernelPTPage THEN map_kernel_window ELSE ZeroPage]
    /\ InitRest

(***************************************************************************)
(* VSpace registry and page-table walkers.  The walkers take the memory    *)
(* they read as a parameter.                                               *)
(***************************************************************************)
\* a PTE slot is a table pointer and an index; its word is read from memory
Slot(pt, idx) == [pt |-> pt, idx |-> idx]
PTEWord(m, slot) == m[PageOf(slot.pt)][slot.idx]

\* a faulty findVSpaceForASID: an empty pool slot is reported as invalid root
findVSpaceForASID_invalidRoot(asid) ==
    LET poolPtr == riscvKSASIDTable[SHR(asid, asidLowBits)] IN
    IF poolPtr = NULL \/ asidPools[poolPtr][LOWBITS(asid, asidLowBits)] = NULL
    THEN [status |-> "EXCEPTION_LOOKUP_FAULT", vspace_root |-> NULL,
          lf |-> lookup_fault_invalid_root_new]
    ELSE [status |-> "EXCEPTION_NONE",
          vspace_root |-> asidPools[poolPtr][LOWBITS(asid, asidLowBits)], lf |-> NoFault]

findVSpaceForASID(asid) ==
    LET poolPtr == riscvKSASIDTable[SHR(asid, asidLowBits)] IN
    IF poolPtr = NULL
    THEN [status |-> "EXCEPTION_LOOKUP_FAULT", vspace_root |-> NULL,
          lf |-> lookup_fault_invalid_root_new]
    ELSE LET vspace_root == asidPools[poolPtr][LOWBITS(asid, asidLowBits)] IN
         IF vspace_root = NULL
         THEN [status |-> "EXCEPTION_LOOKUP_FAULT", vspace_root |-> NULL,
               lf |-> lookup_fault_missing_capability_new(RISCV_GET_LVL_PGSIZE_BITS(1))]
         ELSE [status |-> "EXCEPTION_NONE", vspace_root |-> vspace_root, lf |-> NoFault]

\* the lookup fault a call leaves in the relay: the last one raised
Relay(prev, new) == IF new = NoFault THEN prev ELSE new

\* capPTMappedASID as read from a capability of any type
capASIDField(cap) ==
    IF cap.capType = "cap_page_table_cap" THEN cap.capPTMappedASID
    ELSE IF cap.capType = "cap_frame_cap" THEN cap.capFMappedASID
    ELSE asidInvalid

\* a faulty isVTableRoot: the resolved root is not compared with the table
isVTableRoot_noBaseCheck(cap) ==
    LET r == findVSpaceForASID(capASIDField(cap)) IN
    /\ cap.capType = "cap_page_table_cap"
    /\ r.status = "EXCEPTION_NONE"

isVTableRoot(cap) ==
    LET r == findVSpaceForASID(capASIDField(cap)) IN
    /\ cap.capType = "cap_page_table_cap"
    /\ r.status = "EXCEPTION_NONE"
    /\ cap.capPTBasePtr = r.vspace_root

\* the lookup fault isVTableRoot leaves behind
isVTableRootLF(cap) == findVSpaceForASID(capASIDField(cap)).lf

isValidNativeRoot(cap) == isVTableRoot(cap) /\ cap.capPTIsMapped = 1

\* copyGlobalMappings: the table with the kernel window copied in
\* a faulty copyGlobalMappings: the kernel window is not copied
copyGlobalMappings_none(m, table) == table

copyGlobalMappings(m, table) ==
    [i \in 0 .. PTEntries - 1 |->
        IF i >= RISCV_GET_PT_INDEX(kernelBase, 1) THEN m[KernelPTPage][i] ELSE table[i]]

\* lookupPTSlot's loop from level i to ptLevel, standing at ptSlot.
\* status ASSERT: getPPtrFromHWPTE's assertion failed (debug build).
RECURSIVE lookupPTSlotLoop(_, _, _, _, _)
lookupPTSlotLoop(m, ptSlot, vptr, i, ptLevel) ==
    IF i > ptLevel
    THEN [status |-> "EXCEPTION_NONE", ptSlot |-> ptSlot, missingPTLevel |-> 0,
          lf |-> NoFault]
    ELSE IF PTEWord(m, ptSlot) = 0
    THEN [status |-> "EXCEPTION_LOOKUP_FAULT", ptSlot |-> ptSlot, missingPTLevel |-> i,
          lf |-> lookup_fault_missing_capability_new(RISCV_GET_LVL_PGSIZE_BITS(i - 1))]
    ELSE IF debug /\ ~isValidHWPageTable(PTEWord(m, ptSlot))
    THEN [status |-> "ASSERT", ptSlot |-> ptSlot, missingPTLevel |-> 0, lf |-> NoFault]
    ELSE lookupPTSlotLoop(m, Slot(getPPtrFromHWPTE(PTEWord(m, ptSlot)),
                                  RISCV_GET_PT_INDEX(vptr, i)),
                          vptr, i + 1, ptLevel)

\* a faulty lookupPTSlot: the fault is sized to the level asked for
lookupPTSlot_levelBits(m, lvl1pt, vptr, ptLevel) ==
    LET r == lookupPTSlotLoop(m, Slot(lvl1pt, RISCV_GET_PT_INDEX(vptr, 1)), vptr, 2, ptLevel)
    IN
    IF lvl1pt = 0
    THEN [status |-> "EXCEPTION_LOOKUP_FAULT", ptSlot |-> Slot(NULL, 0),
          missingPTLevel |-> 0, lf |-> NoFault]
    ELSE IF r.status = "EXCEPTION_LOOKUP_FAULT"
    THEN [r EXCEPT !.lf = lookup_fault_missing_capability_new(
                              RISCV_GET_LVL_PGSIZE_BITS(r.missingPTLevel))]
    ELSE r

\* a faulty lookupPTSlot: a missing table is not reported, the walk just stops
lookupPTSlot_ignoresMissing(m, lvl1pt, vptr, ptLevel) ==
    LET r == lookupPTSlotLoop(m, Slot(lvl1pt, RISCV_GET_PT_INDEX(vptr, 1)), vptr, 2, ptLevel)
    IN
    IF lvl1pt = 0
    THEN [status |-> "EXCEPTION_LOOKUP_FAULT", ptSlot |-> Slot(NULL, 0),
          missingPTLevel |-> 0, lf |-> NoFault]
    ELSE IF r.status = "EXCEPTION_LOOKUP_FAULT"
    THEN [r EXCEPT !.status = "EXCEPTION_NONE", !.lf = NoFault]
    ELSE r

\* a faulty lookupPTSlot: the slot the walk ends at is inspected as well
lookupPTSlot_inspectsLast(m, lvl1pt, vptr, ptLevel) ==
    LET r == lookupPTSlotLoop(m, Slot(lvl1pt, RISCV_GET_PT_INDEX(vptr, 1)), vptr, 2, ptLevel)
    IN
    IF lvl1pt = 0
    THEN [status |-> "EXCEPTION_LOOKUP_FAULT", ptSlot |-> Slot(NULL, 0),
          missingPTLevel |-> 0, lf |-> NoFault]
    ELSE IF r.status = "EXCEPTION_NONE" /\ PTEWord(m, r.ptSlot) = 0
    THEN [r EXCEPT !.status = "EXCEPTION_LOOKUP_FAULT", !.missingPTLevel = ptLevel + 1,
                   !.lf = lookup_fault_missing_capability_new(
                              RISCV_GET_LVL_PGSIZE_BITS(ptLevel))]
    ELSE r

lookupPTSlot(m, lvl1pt, vptr, ptLevel) ==
    IF lvl1pt = 0
    THEN [status |-> "EXCEPTION_LOOKUP_FAULT", ptSlot |-> Slot(NULL, 0),
          missingPTLevel |-> 0, lf |-> NoFault]
    ELSE lookupPTSlotLoop(m, Slot(lvl1pt, RISCV_GET_PT_INDEX(vptr, 1)), vptr, 2, ptLevel)

\* lookupPageTableLevelSlot's loop from level i; init FALSE: ret.ptSlot was never set
RECURSIVE lookupPageTableLevelSlotLoop(_, _, _, _, _)
lookupPageTableLevelSlotLoop(m, ptSlot, vptr, i, target_pt) ==
    IF i > CONFIG_PT_LEVELS
    THEN [status |-> "EXCEPTION_LOOKUP_FAULT", ptSlot |-> ptSlot, init |-> TRUE]
    ELSE IF ~isValidHWPageTable(PTEWord(m, ptSlot))
    THEN [status |-> "EXCEPTION_LOOKUP_FAULT", ptSlot |-> ptSlot, init |-> TRUE]
    ELSE LET pt == getPPtrFromHWPTE(PTEWord(m, ptSlot)) IN
         IF pt = target_pt
         THEN [status |-> "EXCEPTION_NONE",
               ptSlot |-> Slot(pt, RISCV_GET_PT_INDEX(vptr, i - 1)), init |-> TRUE]
         ELSE lookupPageTableLevelSlotLoop(m, Slot(pt, RISCV_GET_PT_INDEX(vptr, i)),
                                           vptr, i + 1, target_pt)

lookupPageTableLevelSlot(m, asid, vptr, target_pt) ==
    LET find_ret == findVSpaceForASID(asid) IN
    IF find_ret.status # "EXCEPTION_NONE"
    THEN [status |-> "EXCEPTION_LOOKUP_FAULT", ptSlot |-> Slot(NULL, 0), init |-> FALSE]
    ELSE lookupPageTableLevelSlotLoop(
             m, Slot(find_ret.vspace_root, RISCV_GET_PT_INDEX(vptr, 1)), vptr, 2, target_pt)

(***************************************************************************)
(* Memory updates.                                                         *)
(***************************************************************************)
\* *slot = pte
StorePTE(m, slot, pte) == [m EXCEPT ![PageOf(slot.pt)][slot.idx] = pte]

\* updatePTE with pte_entries = {base: slot, length: 1}
updatePTE(m, pte, slot) == StorePTE(m, slot, pte)

\* the stores and fences updatePTE issues, in program order
updatePTEEvents == <<"store", "sfence.vma">>

\* clearMemory(pt, RISCV_4K_PageBits)
clearMemory(m, pt) == [m EXCEPT ![PageOf(pt)] = ZeroPage]

\* every PTE slot of modelled memory
AllSlots == {Slot(PagePtr(p), i) : p \in Pages, i \in 0 .. PTEntries - 1}

\* unmapPageTable: the memories it can leave.  The entry is written when the
\* lookup FAILED; through an unset ret.ptSlot the store can land on any word
\* of modelled memory or outside it.
unmapPageTable(m, asid, vaddr, pt) ==
    LET pt_ret == lookupPageTableLevelSlot(m, asid, vaddr, pt) IN
    IF pt_ret.status # "EXCEPTION_NONE"
    THEN IF pt_ret.init
         THEN {StorePTE(m, pt_ret.ptSlot, pte_pte_invalid_new)}
         ELSE {m} \cup {StorePTE(m, s, pte_pte_invalid_new) : s \in AllSlots}
    ELSE {m}

\* the stores and fences unmapPageTable issues, in program order
unmapPageTableEvents(m, asid, vaddr, pt) ==
    IF lookupPageTableLevelSlot(m, asid, vaddr, pt).status # "EXCEPTION_NONE"
    THEN <<"store", "sfence.vma">>
    ELSE <<>>

\* a faulty unmapPage: the entry found is left as it is
unmapPage_noClear(m, page_size, asid, vptr, pptr) ==
    LET find_ret == findVSpaceForASID(asid) IN
    IF find_ret.status # "EXCEPTION_NONE"
    THEN [status |-> "EXCEPTION_NONE", mem |-> m, lf |-> find_ret.lf, events |-> <<>>]
    ELSE LET lu_ret == lookupPTSlot(m, find_ret.vspace_root, vptr,
                                    RISCVpageAtPTLevel(page_size)) IN
         [status |-> IF lu_ret.status = "ASSERT" THEN "ASSERT" ELSE "EXCEPTION_NONE",
          mem |-> m, lf |-> lu_ret.lf, events |-> <<>>]

\* unmapPage: the memory it leaves, or ASSERT when the walk trips the assertion
unmapPage(m, page_size, asid, vptr, pptr) ==
    LET find_ret == findVSpaceForASID(asid) IN
    IF find_ret.status # "EXCEPTION_NONE"
    THEN [status |-> "EXCEPTION_NONE", mem |-> m, lf |-> find_ret.lf, events |-> <<>>]
    ELSE LET lu_ret == lookupPTSlot(m, find_ret.vspace_root, vptr,
                                    RISCVpageAtPTLevel(page_size)) IN
         IF lu_ret.status = "ASSERT"
         THEN [status |-> "ASSERT", mem |-> m, lf |-> lu_ret.lf, events |-> <<>>]
         ELSE IF lu_ret.status # "EXCEPTION_NONE"
         THEN [status |-> "EXCEPTION_NONE", mem |-> m, lf |-> lu_ret.lf, events |-> <<>>]
         ELSE [status |-> "EXCEPTION_NONE",
               mem |-> StorePTE(m, lu_ret.ptSlot, pte_pte_invalid_new), lf |-> NoFault,
               events |-> <<"store", "sfence.vma">>]

(***************************************************************************)
(* Outcomes of an invocation: the exception_t returned, the relay          *)
(* variables and the kernel state it leaves (mems: the memories it can     *)
(* leave, more than one only where the code's behaviour is undefined;      *)
(* events: its stores to page tables and its fences, in program order).    *)
(***************************************************************************)
\* the state as it is, EXCEPTION_NONE
Same ==
    [status |-> "EXCEPTION_NONE", err |-> current_syscall_error,
     lf |-> current_lookup_fault, mems |-> {mem}, ptCaps |-> ptCaps,
     frameCaps |-> frameCaps, poolCaps |-> poolCaps,
     untypedHasChildren |-> untypedHasChildren, riscvKSASIDTable |-> riscvKSASIDTable,
     asidPools |-> asidPools, tstate |-> ksCurThreadState, mr0 |-> msgRegister0,
     events |-> <<>>]

\* a faulty error return: the thread has already been set to restart
SyscallFail_afterRestart(err, lf) ==
    [Same EXCEPT !.status = "EXCEPTION_SYSCALL_ERROR", !.err = err, !.lf = lf,
                 !.tstate = "ThreadState_Restart"]

\* current_syscall_error.type = ...; return EXCEPTION_SYSCALL_ERROR
SyscallFail(err, lf) ==
    [Same EXCEPT !.status = "EXCEPTION_SYSCALL_ERROR", !.err = err, !.lf = lf]

\* a kernel assertion failed while tstate was the thread's state
AssertFail(lf, tstate) == [Same EXCEPT !.status = "ASSERT", !.lf = lf, !.tstate = tstate]

\* an extra capability of the message: none, or the capability in a slot
NoExtraCap == [kind |-> "none", obj |-> 0]
\* the rights mask and attributes of a message that carries none
NoRights == [capAllowRead |-> FALSE, capAllowWrite |-> FALSE]
NoAttr == [riscvExecuteNever |-> FALSE]
ExtraCap(x) ==
    IF x.kind = "pt" THEN ptCaps[x.obj]
    ELSE IF x.kind = "frame" THEN frameCaps[x.obj]
    ELSE NullCap

(***************************************************************************)
(* Page-table invocations.                                                 *)
(***************************************************************************)
\* the PTE PageTableMap installs for the table at base
PageTablePTE(base) ==
    pte_new(SHR(addrFromPPtr(base), seL4_PageBits), 0, 1, 1, 0, 0, 0, 0, 0, 1)

\* the capability PageTableMap writes back
PageTableMapCap(cap, asid, vaddr) ==
    [cap EXCEPT !.capPTIsMapped = 1, !.capPTMappedASID = asid,
                !.capPTMappedAddress = vaddr]

\* ctSlot->cap = cap; *ptSlot = pte  (after setThreadState(Restart))
performPageTableInvocationMap(cap, p, pte, ptSlot, lf) ==
    [Same EXCEPT !.tstate = "ThreadState_Restart", !.lf = lf,
                 !.ptCaps = [ptCaps EXCEPT ![p] = cap],
                 !.mems = {StorePTE(mem, ptSlot, pte)},
                 !.events = <<"store">>]

\* unmapPageTable and clearMemory when mapped, then capPTIsMapped = 0
performPageTableInvocationUnmap(cap, p, lf) ==
    [Same EXCEPT !.tstate = "ThreadState_Restart", !.lf = lf,
                 !.ptCaps = [ptCaps EXCEPT ![p].capPTIsMapped = 0],
                 !.mems = IF cap.capPTIsMapped = 1
                          THEN {clearMemory(m, cap.capPTBasePtr) :
                                  m \in unmapPageTable(mem, cap.capPTMappedASID,
                                                       cap.capPTMappedAddress,
                                                       cap.capPTBasePtr)}
                          ELSE {mem},
                 !.events = IF cap.capPTIsMapped = 1
                            THEN unmapPageTableEvents(mem, cap.capPTMappedASID,
                                                      cap.capPTMappedAddress,
                                                      cap.capPTBasePtr)
                                 \o <<"store">>
                            ELSE <<>>]

decodeRISCVPageTableInvocation(label, length, p, excap, vaddr) ==
    LET cap == ptCaps[p]
        lvl1ptCap == ExtraCap(excap)
        lf1 == Relay(current_lookup_fault, isVTableRootLF(cap))
        lfU == IF cap.capPTIsMapped = 1
               THEN Relay(lf1, findVSpaceForASID(cap.capPTMappedASID).lf)
               ELSE lf1
        lf2 == Relay(lf1, isVTableRootLF(lvl1ptCap))
        lvl1pt == lvl1ptCap.capPTBasePtr
        asid == lvl1ptCap.capPTMappedASID
        lu_ret == lookupPTSlot(mem, lvl1pt, vaddr, CONFIG_PT_LEVELS)
        lf3 == Relay(lf2, lu_ret.lf)
    IN
    IF isVTableRoot(cap)
    THEN SyscallFail(SyscallError("seL4_IllegalOperation", 0), lf1)
    ELSE IF label = "RISCVPageTableUnmap"
    THEN performPageTableInvocationUnmap(cap, p, lfU)
    ELSE IF label # "RISCVPageTableMap"
    THEN SyscallFail(SyscallError("seL4_IllegalOperation", 0), lf1)
    ELSE IF length < 2 \/ excap = NoExtraCap
    THEN SyscallFail(SyscallError("seL4_TruncatedMessage", 0), lf1)
    ELSE IF ~isValidNativeRoot(lvl1ptCap)
    THEN SyscallFail(SyscallError("seL4_InvalidCapability", 1), lf2)
    ELSE IF vaddr >= kernelBase
    THEN SyscallFail(SyscallError("seL4_InvalidArgument", 0), lf2)
    ELSE IF lu_ret.status = "ASSERT"
    THEN AssertFail(lf3, ksCurThreadState)
    ELSE IF PTEWord(mem, lu_ret.ptSlot) # 0
    THEN SyscallFail(SyscallError("seL4_DeleteFirst", 0), lf3)
    ELSE performPageTableInvocationMap(PageTableMapCap(cap, asid, vaddr), p,
                                       PageTablePTE(cap.capPTBasePtr), lu_ret.ptSlot, lf3)

(***************************************************************************)
(* Frame invocations.                                                      *)
(***************************************************************************)
\* words are VABits wide: additions wrap around
WordAdd(a, b) == (a + b) % BIT(VABits)

createSafeMappingEntries_PTE(base, vaddr, frameSize, vmRights, attr, lvl1pt) ==
    LET lu_ret == lookupPTSlot(mem, lvl1pt, vaddr, RISCVpageAtPTLevel(frameSize))
        executable == ~attr.riscvExecuteNever
    IN
    IF lu_ret.status = "ASSERT"
    THEN [status |-> "ASSERT", pte |-> 0, pte_entries |-> lu_ret.ptSlot, lf |-> lu_ret.lf]
    ELSE IF lu_ret.status # "EXCEPTION_NONE"
    THEN [status |-> "EXCEPTION_SYSCALL_ERROR", pte |-> 0, pte_entries |-> lu_ret.ptSlot,
          lf |-> lu_ret.lf]
    ELSE [status |-> "EXCEPTION_NONE", pte |-> makeUserPTE(base, executable, vmRights),
          pte_entries |-> lu_ret.ptSlot, lf |-> lu_ret.lf]

\* a faulty test: the frame's mapped address is compared only if it is nonzero
mappedAtOtherAddress_nonzero(cap, vaddr) ==
    /\ cap.capFMappedASID # asidInvalid
    /\ cap.capFMappedAddress # 0
    /\ cap.capFMappedAddress # vaddr

\* PageMap's test for a frame capability that is mapped at another address
mappedAtOtherAddress(cap, vaddr) ==
    cap.capFMappedASID # asidInvalid /\ cap.capFMappedAddress # vaddr

\* the capability PageMap writes back
PageMapCap(cap, asid, vaddr) ==
    [cap EXCEPT !.capFMappedASID = asid, !.capFMappedAddress = vaddr]

\* ctSlot->cap = cap; updatePTE(pte, pte_entries)
performPageInvocationMapPTE(cap, f, pte, pte_entries, lf) ==
    [Same EXCEPT !.tstate = "ThreadState_Restart", !.lf = lf,
                 !.frameCaps = [frameCaps EXCEPT ![f] = cap],
                 !.mems = {updatePTE(mem, pte, pte_entries)},
                 !.events = updatePTEEvents]

performPageInvocationRemapPTE(pte, pte_entries, lf) ==
    [Same EXCEPT !.tstate = "ThreadState_Restart", !.lf = lf,
                 !.mems = {updatePTE(mem, pte, pte_entries)},
                 !.events = updatePTEEvents]

\* the capability PageUnmap leaves in the slot
PageUnmapCap(cap) ==
    [cap EXCEPT !.capFMappedAddress = 0, !.capFMappedASID = asidInvalid]

\* unmapPage when the capability is mapped, then the capability is reset
performPageInvocationUnmap(cap, f) ==
    LET r == IF cap.capFMappedASID # asidInvalid
             THEN unmapPage(mem, cap.capFSize, cap.capFMappedASID,
                            cap.capFMappedAddress, cap.capFBasePtr)
             ELSE [status |-> "EXCEPTION_NONE", mem |-> mem, lf |-> NoFault,
                   events |-> <<>>]
        lf == Relay(current_lookup_fault, r.lf)
    IN
    IF r.status = "ASSERT" THEN AssertFail(lf, "ThreadState_Restart")
    ELSE [Same EXCEPT !.tstate = "ThreadState_Restart", !.lf = lf,
                      !.frameCaps = [frameCaps EXCEPT ![f] = PageUnmapCap(frameCaps[f])],
                      !.mems = {r.mem}, !.events = r.events]

\* the physical base in the first message register
performPageGetAddress(vbase_ptr) ==
    [Same EXCEPT !.tstate = "ThreadState_Restart", !.mr0 = addrFromPPtr(vbase_ptr)]

decodePageMap(length, f, excap, vaddr, rightsMask, attr) ==
    LET cap == frameCaps[f]
        lvl1ptCap == ExtraCap(excap)
        frameSize == cap.capFSize
        capVMRights == cap.capFVMRights
        lf1 == Relay(current_lookup_fault, isVTableRootLF(lvl1ptCap))
        lvl1pt == lvl1ptCap.capPTBasePtr
        lu_ret == lookupPTSlot(mem, lvl1pt, vaddr, RISCVpageAtPTLevel(frameSize))
        lf2 == Relay(lf1, lu_ret.lf)
        asid == lvl1ptCap.capPTMappedASID
        vtop == WordAdd(vaddr, BIT(pageBitsForSize(frameSize)) - 1)
        vmRights == maskVMRights(capVMRights, rightsMask)
        frame_paddr == addrFromPPtr(cap.capFBasePtr)
        map_ret == createSafeMappingEntries_PTE(frame_paddr, vaddr, frameSize, vmRights,
                                                attr, lvl1pt)
    IN
    IF length < 3 \/ excap = NoExtraCap
    THEN SyscallFail(SyscallError("seL4_TruncatedMessage", 0), current_lookup_fault)
    ELSE IF mappedAtOtherAddress(cap, vaddr)
    THEN SyscallFail(SyscallError("seL4_InvalidCapability", 0), current_lookup_fault)
    ELSE IF lvl1ptCap.capType # "cap_page_table_cap"
    THEN SyscallFail(SyscallError("seL4_InvalidCapability", 1), current_lookup_fault)
    ELSE IF ~isVTableRoot(lvl1ptCap)
    THEN SyscallFail(SyscallError("seL4_InvalidCapability", 1), lf1)
    ELSE IF lu_ret.status = "ASSERT"
    THEN AssertFail(lf2, ksCurThreadState)
    ELSE IF lu_ret.status # "EXCEPTION_NONE"
    THEN SyscallFail(SyscallError("seL4_FailedLookup", 0), lf2)
    ELSE IF vtop >= kernelBase
    THEN SyscallFail(SyscallError("seL4_InvalidArgument", 0), lf2)
    ELSE IF ~checkVPAlignment(frameSize, vaddr)
    THEN SyscallFail(SyscallError("seL4_AlignmentError", 0), lf2)
    ELSE IF map_ret.status = "ASSERT"
    THEN AssertFail(lf2, ksCurThreadState)
    ELSE IF map_ret.status # "EXCEPTION_NONE"
    THEN SyscallFail(SyscallError("seL4_FailedLookup", 0), lf2)
    ELSE performPageInvocationMapPTE(PageMapCap(cap, asid, vaddr), f, map_ret.pte,
                                     map_ret.pte_entries, lf2)

decodePageRemap(length, f, excap, rightsMask, attr) ==
    LET cap == frameCaps[f]
        lvl1ptCap == ExtraCap(excap)
        frameSize == cap.capFSize
        capVMRights == cap.capFVMRights
        lf1 == Relay(current_lookup_fault, isVTableRootLF(lvl1ptCap))
        vaddr == cap.capFMappedAddress
        lvl1pt == lvl1ptCap.capPTBasePtr
        lu_ret == lookupPTSlot(mem, lvl1pt, vaddr, RISCVpageAtPTLevel(frameSize))
        lf2 == Relay(lf1, lu_ret.lf)
        vmRights == maskVMRights(capVMRights, rightsMask)
        frame_paddr == addrFromPPtr(cap.capFBasePtr)
        map_ret == createSafeMappingEntries_PTE(frame_paddr, vaddr, frameSize, vmRights,
                                                attr, lvl1pt)
    IN
    IF length < 2 \/ excap = NoExtraCap
    THEN SyscallFail(SyscallError("seL4_TruncatedMessage", 0), current_lookup_fault)
    ELSE IF lvl1ptCap.capType # "cap_page_table_cap"
    THEN SyscallFail(SyscallError("seL4_InvalidCapability", 1), current_lookup_fault)
    ELSE IF ~isVTableRoot(lvl1ptCap)
    THEN SyscallFail(SyscallError("seL4_InvalidCapability", 1), lf1)
    ELSE IF cap.capFMappedASID = asidInvalid
    THEN SyscallFail(SyscallError("seL4_InvalidCapability", 0), lf1)
    ELSE IF lu_ret.status = "ASSERT"
    THEN AssertFail(lf2, ksCurThreadState)
    ELSE IF lu_ret.status # "EXCEPTION_NONE"
    THEN SyscallFail(SyscallError("seL4_FailedLookup", 0), lf2)
    ELSE IF map_ret.status = "ASSERT"
    THEN AssertFail(lf2, ksCurThreadState)
    ELSE IF map_ret.status # "EXCEPTION_NONE"
    THEN SyscallFail(SyscallError("seL4_FailedLookup", 0), lf2)
    ELSE performPageInvocationRemapPTE(map_ret.pte, map_ret.pte_entries, lf2)

decodeRISCVFrameInvocation(label, length, f, excap, vaddr, rightsMask, attr) ==
    IF label = "RISCVPageMap" THEN decodePageMap(length, f, excap, vaddr, rightsMask, attr)
    ELSE IF label = "RISCVPageRemap" THEN decodePageRemap(length, f, excap, rightsMask, attr)
    ELSE IF label = "RISCVPageUnmap" THEN performPageInvocationUnmap(frameCaps[f], f)
    ELSE IF label = "RISCVPageGetAddress"
    THEN performPageGetAddress(frameCaps[f].capFBasePtr)
    ELSE SyscallFail(SyscallError("seL4_IllegalOperation", 0), current_lookup_fault)

(***************************************************************************)
(* ASID control and ASID pool invocations (decodeRISCVMMUInvocation).      *)
(***************************************************************************)
\* a faulty scan for a free pool: it stops at the last entry, free or not
FirstFreePool_stopsAtLast ==
    LET free == {i \in 0 .. nASIDPools - 1 : riscvKSASIDTable[i] = NULL} IN
    IF free = {} THEN nASIDPools - 1
    ELSE CHOOSE i \in free : \A j \in free : i <= j

\* the first index the scan for a free ASID-table entry stops at
FirstFreePool ==
    LET free == {i \in 0 .. nASIDPools - 1 : riscvKSASIDTable[i] = NULL} IN
    IF free = {} THEN nASIDPools
    ELSE CHOOSE i \in free : \A j \in free : i <= j

\* a faulty scan for a free ASID: it does not step over ASID 0
FirstFreeASID_noSkip(asid, pool) ==
    LET free == {i \in 0 .. BIT(asidLowBits) - 1 : asidPools[pool][i] = NULL} IN
    IF free = {} THEN BIT(asidLowBits)
    ELSE CHOOSE i \in free : \A j \in free : i <= j

\* a faulty scan for a free ASID: it runs from the top of the pool downwards
FirstFreeASID_fromTop(asid, pool) ==
    LET free == {i \in 0 .. BIT(asidLowBits) - 1 :
                    ~(asid + i = 0 \/ asidPools[pool][i] # NULL)} IN
    IF free = {} THEN BIT(asidLowBits)
    ELSE CHOOSE i \in free : \A j \in free : i >= j

\* the first index the scan for a free ASID in the pool stops at
FirstFreeASID(asid, pool) ==
    LET free == {i \in 0 .. BIT(asidLowBits) - 1 :
                    ~(asid + i = 0 \/ asidPools[pool][i] # NULL)} IN
    IF free = {} THEN BIT(asidLowBits)
    ELSE CHOOSE i \in free : \A j \in free : i <= j

\* the untyped capability over an ASID-pool sized region
UntypedCap(u) ==
    IF u.kind = "untyped"
    THEN [capType |-> "cap_untyped_cap", capPtr |-> PagePtr(u.obj),
          capBlockSize |-> seL4_PageBits, capIsDevice |-> FALSE]
    ELSE ExtraCap(u)

performASIDControlInvocation(frame, slot, parent, asid_base) ==
    [Same EXCEPT
       !.tstate = "ThreadState_Restart",
       !.untypedHasChildren = [untypedHasChildren EXCEPT ![parent] = TRUE],
       !.asidPools = [asidPools EXCEPT ![frame] = [i \in 0 .. BIT(asidLowBits) - 1 |-> NULL]],
       !.poolCaps = [poolCaps EXCEPT ![slot] = cap_asid_pool_cap_new(asid_base, frame)],
       !.riscvKSASIDTable = [riscvKSASIDTable EXCEPT ![SHR(asid_base, asidLowBits)] = frame]]

\* index: the destination slot lookupTargetSlot resolves, 0 when the lookup fails
decodeASIDControl(label, length, parent, rootPresent, index) ==
    LET untyped == UntypedCap(parent)
        i == FirstFreePool
        asid_base == SHL(i, asidLowBits)
    IN
    IF label # "RISCVASIDControlMakePool"
    THEN SyscallFail(SyscallError("seL4_IllegalOperation", 0), current_lookup_fault)
    ELSE IF length < 2 \/ parent = NoExtraCap \/ ~rootPresent
    THEN SyscallFail(SyscallError("seL4_TruncatedMessage", 0), current_lookup_fault)
    ELSE IF i = nASIDPools
    THEN SyscallFail(SyscallError("seL4_DeleteFirst", 0), current_lookup_fault)
    ELSE IF untyped.capType # "cap_untyped_cap"
    THEN SyscallFail(SyscallError("seL4_InvalidCapability", 1), current_lookup_fault)
    ELSE IF untypedHasChildren[parent.obj]
    THEN SyscallFail(SyscallError("seL4_RevokeFirst", 0), current_lookup_fault)
    ELSE IF index \notin PoolSlots
    THEN SyscallFail(SyscallError("seL4_FailedLookup", 0), lookup_fault_invalid_root_new)
    ELSE IF poolCaps[index] # NullCap
    THEN SyscallFail(SyscallError("seL4_DeleteFirst", 0), current_lookup_fault)
    ELSE performASIDControlInvocation(untyped.capPtr, index, parent.obj, asid_base)

\* the capability ASIDPoolAssign writes back
ASIDPoolAssignCap(cap, asid) ==
    [cap EXCEPT !.capPTMappedASID = asid, !.capPTIsMapped = 1]

performASIDPoolInvocation(asid, poolPtr, p) ==
    LET regionBase == ptCaps[p].capPTBasePtr IN
    [Same EXCEPT
       !.tstate = "ThreadState_Restart",
       !.ptCaps = [ptCaps EXCEPT ![p] = ASIDPoolAssignCap(ptCaps[p], asid)],
       !.mems = {[mem EXCEPT ![PageOf(regionBase)] =
                              copyGlobalMappings(mem, mem[PageOf(regionBase)])]},
       !.asidPools = [asidPools EXCEPT ![poolPtr][LOWBITS(asid, asidLowBits)] = regionBase],
       !.events = <<"store">>]

\* a faulty decodeASIDPool: a root that carries an ASID is assigned again
decodeASIDPool_reassigns(label, s, excap) ==
    LET cap == poolCaps[s]
        pool == riscvKSASIDTable[SHR(cap.capASIDBase, asidLowBits)]
        asid == cap.capASIDBase
        i == FirstFreeASID(asid, pool)
    IN
    IF label # "RISCVASIDPoolAssign"
    THEN SyscallFail(SyscallError("seL4_IllegalOperation", 0), current_lookup_fault)
    ELSE IF excap = NoExtraCap
    THEN SyscallFail(SyscallError("seL4_TruncatedMessage", 0), current_lookup_fault)
    ELSE IF pool = NULL
    THEN SyscallFail(SyscallError("seL4_FailedLookup", 0), lookup_fault_invalid_root_new)
    ELSE IF pool # cap.capASIDPool
    THEN SyscallFail(SyscallError("seL4_InvalidCapability", 0), current_lookup_fault)
    ELSE IF i = BIT(asidLowBits)
    THEN SyscallFail(SyscallError("seL4_DeleteFirst", 0), current_lookup_fault)
    ELSE performASIDPoolInvocation(asid + i, pool, excap.obj)

decodeASIDPool(label, s, excap) ==
    LET cap == poolCaps[s]
        vspaceCap == ExtraCap(excap)
        pool == riscvKSASIDTable[SHR(cap.capASIDBase, asidLowBits)]
        asid == cap.capASIDBase
        i == FirstFreeASID(asid, pool)
    IN
    IF label # "RISCVASIDPoolAssign"
    THEN SyscallFail(SyscallError("seL4_IllegalOperation", 0), current_lookup_fault)
    ELSE IF excap = NoExtraCap
    THEN SyscallFail(SyscallError("seL4_TruncatedMessage", 0), current_lookup_fault)
    ELSE IF capASIDField(vspaceCap) # asidInvalid
    THEN SyscallFail(SyscallError("seL4_InvalidCapability", 1), current_lookup_fault)
    ELSE IF pool = NULL
    THEN SyscallFail(SyscallError("seL4_FailedLookup", 0), lookup_fault_invalid_root_new)
    ELSE IF pool # cap.capASIDPool
    THEN SyscallFail(SyscallError("seL4_InvalidCapability", 0), current_lookup_fault)
    ELSE IF i = BIT(asidLowBits)
    THEN SyscallFail(SyscallError("seL4_DeleteFirst", 0), current_lookup_fault)
    ELSE performASIDPoolInvocation(asid + i, pool, excap.obj)

(***************************************************************************)
(* The invocations as steps of the kernel.  An invocation is taken from    *)
(* user level; its reply is delivered by the kernel exit.                  *)
(***************************************************************************)
\* the thread is at user level and the kernel has not halted
CanInvoke == ret = NoRet /\ ~halted /\ nInvocations < MaxInvocations

\* the kernel objects: page tables and frames, capabilities, ASID registry
objects == <<mem, ptCaps, frameCaps, poolCaps, untypedHasChildren, riscvKSASIDTable,
             asidPools>>

\* the invocation label on the capability of type capType to object obj ends
\* with outcome o
Invoke(capType, label, obj, o) ==
    /\ mem' \in o.mems
    /\ ptCaps' = o.ptCaps
    /\ frameCaps' = o.frameCaps
    /\ poolCaps' = o.poolCaps
    /\ untypedHasChildren' = o.untypedHasChildren
    /\ riscvKSASIDTable' = o.riscvKSASIDTable
    /\ asidPools' = o.asidPools
    /\ current_syscall_error' = o.err
    /\ current_lookup_fault' = o.lf
    /\ ret' = [capType |-> capType, label |-> label, obj |-> obj, status |-> o.status]
    /\ ksCurThreadState' = o.tstate
    /\ msgRegister0' = o.mr0
    /\ halted' = (o.status = "ASSERT")
    /\ nInvocations' = IF objects' # objects THEN nInvocations + 1 ELSE nInvocations
    /\ tlb' = IF \E i \in DOMAIN o.events : o.events[i] = "sfence.vma" THEN {} ELSE tlb
    /\ UNCHANGED <<debug, tcbVTable, satp>>
    /\ UNCHANGED kiVars

PageTableMap(p, length, excap, vaddr) ==
    /\ CanInvoke
    /\ Invoke("cap_page_table_cap", "RISCVPageTableMap", p,
              decodeRISCVPageTableInvocation("RISCVPageTableMap", length, p, excap, vaddr))

PageTableUnmap(p) ==
    /\ CanInvoke
    /\ Invoke("cap_page_table_cap", "RISCVPageTableUnmap", p,
              decodeRISCVPageTableInvocation("RISCVPageTableUnmap", 0, p, NoExtraCap, 0))

PageTableOther(p) ==
    /\ CanInvoke
    /\ Invoke("cap_page_table_cap", "other", p,
              decodeRISCVPageTableInvocation("other", 0, p, NoExtraCap, 0))

PageMap(f, length, excap, vaddr, rightsMask, attr) ==
    /\ CanInvoke
    /\ Invoke("cap_frame_cap", "RISCVPageMap", f,
              decodeRISCVFrameInvocation("RISCVPageMap", length, f, excap, vaddr,
                                         rightsMask, attr))

PageRemap(f, length, excap, rightsMask, attr) ==
    /\ CanInvoke
    /\ Invoke("cap_frame_cap", "RISCVPageRemap", f,
              decodeRISCVFrameInvocation("RISCVPageRemap", length, f, excap, 0,
                                         rightsMask, attr))

PageUnmap(f) ==
    /\ CanInvoke
    /\ Invoke("cap_frame_cap", "RISCVPageUnmap", f,
              decodeRISCVFrameInvocation("RISCVPageUnmap", 0, f, NoExtraCap, 0, NoRights, NoAttr))

PageGetAddress(f) ==
    /\ CanInvoke
    /\ Invoke("cap_frame_cap", "RISCVPageGetAddress", f,
              decodeRISCVFrameInvocation("RISCVPageGetAddress", 0, f, NoExtraCap, 0,
                                         NoRights, NoAttr))

PageOther(f) ==
    /\ CanInvoke
    /\ Invoke("cap_frame_cap", "other", f,
              decodeRISCVFrameInvocation("other", 0, f, NoExtraCap, 0, NoRights, NoAttr))

ASIDControlMakePool(length, parent, rootPresent, index) ==
    /\ CanInvoke
    /\ Invoke("cap_asid_control_cap", "RISCVASIDControlMakePool", 0,
              decodeASIDControl("RISCVASIDControlMakePool", length, parent, rootPresent, index))

ASIDControlOther ==
    /\ CanInvoke
    /\ Invoke("cap_asid_control_cap", "other", 0,
              decodeASIDControl("other", 0, NoExtraCap, FALSE, 0))

ASIDPoolAssign(s, excap) ==
    /\ CanInvoke
    /\ poolCaps[s] # NullCap
    /\ Invoke("cap_asid_pool_cap", "RISCVASIDPoolAssign", s,
              decodeASIDPool("RISCVASIDPoolAssign", s, excap))

ASIDPoolOther(s) ==
    /\ CanInvoke
    /\ poolCaps[s] # NullCap
    /\ Invoke("cap_asid_pool_cap", "other", s, decodeASIDPool("other", s, NoExtraCap))

\* kernel exit: the reply is delivered, the restarted thread runs again and
\* the relay variables and the message register are dead
activateThread ==
    /\ ~halted
    /\ ret # NoRet
    /\ ret' = NoRet
    /\ ksCurThreadState' = "ThreadState_Running"
    /\ current_syscall_error' = NoError
    /\ current_lookup_fault' = NoFault
    /\ msgRegister0' = 0
    /\ UNCHANGED <<mem, ptCaps, frameCaps, poolCaps, untypedHasChildren,
                   riscvKSASIDTable, asidPools, halted, nInvocations, debug,
                   tcbVTable, satp, tlb>>
    /\ UNCHANGED kiVars

(***************************************************************************)
(* Inputs of the invocations.                                              *)
(***************************************************************************)
\* a virtual address from its level indices and page offset
VAddr(i1, i2, off) == SHL(i1, RISCV_GET_LVL_PGSIZE_BITS(1)) + SHL(i2, seL4_PageBits) + off

PTExtraCaps == {[kind |-> "pt", obj |-> p] : p \in PTPages}
FrameExtraCap == [kind |-> "frame", obj |-> 5]

\* PageTableMap messages: well-formed ones at user addresses and at the
\* kernel base, a short one, one without capability
PageTableMapInputs ==
    {[length |-> 2, excap |-> e, vaddr |-> v] :
        e \in PTExtraCaps \cup {FrameExtraCap}, v \in {VAddr(0, 0, 0), kernelBase}}
    \cup {[length |-> 1, excap |-> [kind |-> "pt", obj |-> 1], vaddr |-> 0],
          [length |-> 2, excap |-> NoExtraCap, vaddr |-> 0]}

\* rights masks and attributes of the PageMap and PageRemap messages
RightsAttrs ==
    {[rightsMask |-> [capAllowRead |-> TRUE, capAllowWrite |-> TRUE],
      attr |-> [riscvExecuteNever |-> FALSE]],
     [rightsMask |-> [capAllowRead |-> TRUE, capAllowWrite |-> FALSE],
      attr |-> [riscvExecuteNever |-> TRUE]],
     [rightsMask |-> [capAllowRead |-> FALSE, capAllowWrite |-> FALSE],
      attr |-> [riscvExecuteNever |-> TRUE]]}

\* aligned user addresses
AlignedVAddrs == {VAddr(0, 0, 0), VAddr(0, 1, 0)}
\* an unaligned user address, the last user page (unaligned), the kernel
\* base, the last word of the address space
OddVAddrs == {VAddr(0, 0, 8), kernelBase - BIT(seL4_PageBits) + 8, kernelBase,
              BIT(VABits) - 8}

PageMapInputs ==
    {[length |-> 3, excap |-> e, vaddr |-> v, rightsMask |-> ra.rightsMask,
      attr |-> ra.attr] : e \in PTExtraCaps, v \in AlignedVAddrs, ra \in RightsAttrs}
    \cup {[length |-> 3, excap |-> e, vaddr |-> v, rightsMask |-> NoRights,
           attr |-> NoAttr] : e \in PTExtraCaps, v \in OddVAddrs}
    \cup {[length |-> l, excap |-> e, vaddr |-> 0, rightsMask |-> NoRights,
           attr |-> NoAttr] :
             <<l, e>> \in {<<2, [kind |-> "pt", obj |-> 1]>>, <<3, NoExtraCap>>,
                           <<3, FrameExtraCap>>}}

PageRemapInputs ==
    {[length |-> 2, excap |-> e, rightsMask |-> ra.rightsMask, attr |-> ra.attr] :
        e \in PTExtraCaps, ra \in RightsAttrs}
    \cup {[length |-> l, excap |-> e, rightsMask |-> NoRights, attr |-> NoAttr] :
             <<l, e>> \in {<<1, [kind |-> "pt", obj |-> 1]>>, <<2, NoExtraCap>>,
                           <<2, FrameExtraCap>>}}

MakePoolInputs ==
    {[length |-> 2, parent |-> [kind |-> "untyped", obj |-> u], rootPresent |-> TRUE,
      index |-> u - 9] : u \in PoolPages}
    \cup {[length |-> 1, parent |-> [kind |-> "untyped", obj |-> 10], rootPresent |-> TRUE,
           index |-> 1],
          [length |-> 2, parent |-> NoExtraCap, rootPresent |-> TRUE, index |-> 1],
          [length |-> 2, parent |-> [kind |-> "untyped", obj |-> 10],
           rootPresent |-> FALSE, index |-> 1],
          [length |-> 2, parent |-> FrameExtraCap, rootPresent |-> TRUE, index |-> 1],
          [length |-> 2, parent |-> [kind |-> "untyped", obj |-> 10], rootPresent |-> TRUE,
           index |-> 0]}

Next ==
    \/ \E p \in PTPages, in \in PageTableMapInputs :
          PageTableMap(p, in.length, in.excap, in.vaddr)
    \/ \E p \in PTPages : PageTableUnmap(p)
    \/ \E p \in PTPages : PageTableOther(p)
    \/ \E f \in FramePages, in \in PageMapInputs :
          PageMap(f, in.length, in.excap, in.vaddr, in.rightsMask, in.attr)
    \/ \E f \in FramePages, in \in PageRemapInputs :
          PageRemap(f, in.length, in.excap, in.rightsMask, in.attr)
    \/ \E f \in FramePages : PageUnmap(f)
    \/ \E f \in FramePages : PageGetAddress(f)
    \/ \E f \in FramePages : PageOther(f)
    \/ \E in \in MakePoolInputs :
          ASIDControlMakePool(in.length, in.parent, in.rootPresent, in.index)
    \/ ASIDControlOther
    \/ \E s \in PoolSlots, excap \in {NoExtraCap} \cup PTExtraCaps : ASIDPoolAssign(s, excap)
    \/ \E s \in PoolSlots : ASIDPoolOther(s)
    \/ activateThread

Spec == Init /\ [][Next]_vars


(***************************************************************************)
(* Deletion of ASID bindings and the translation root of the current       *)
(* thread.  setVSpaceRoot and the translation cache are not part of the    *)
(* source tree: the register holds the root and the ASID last written, and *)
(* the cache is the set of ASIDs that tag its entries.                     *)
(***************************************************************************)
kernel_pageTables == PagePtr(KernelPTPage)

\* sfence.vma x0, asid: the cache without the entries tagged asid
hwASIDFlush(asid) == tlb \ {asid}

\* the lookup fault findVSpaceForASID leaves in the relay during setVMRoot
setVMRootFault ==
    IF tcbVTable.capType # "cap_page_table_cap" THEN NoFault
    ELSE findVSpaceForASID(tcbVTable.capPTMappedASID).lf

\* a faulty setVMRoot: it installs the root of the capability unresolved
setVMRoot_noResolve ==
    IF tcbVTable.capType # "cap_page_table_cap"
    THEN setVSpaceRoot(addrFromPPtr(kernel_pageTables), 0)
    ELSE setVSpaceRoot(addrFromPPtr(tcbVTable.capPTBasePtr), tcbVTable.capPTMappedASID)

\* the translation root register setVMRoot(ksCurThread) leaves
setVMRoot ==
    LET threadRoot == tcbVTable IN
    IF threadRoot.capType # "cap_page_table_cap"
    THEN setVSpaceRoot(addrFromPPtr(kernel_pageTables), 0)
    ELSE LET lvl1pt == threadRoot.capPTBasePtr
             asid == threadRoot.capPTMappedASID
             find_ret == findVSpaceForASID(asid)
         IN IF find_ret.status # "EXCEPTION_NONE" \/ find_ret.vspace_root # lvl1pt
            THEN setVSpaceRoot(addrFromPPtr(kernel_pageTables), asid)
            ELSE setVSpaceRoot(addrFromPPtr(lvl1pt), asid)

\* setVMRoot is called after the registry has been written: it reads the
\* registry of the next state
deleteASIDPool(asid_base, pool) ==
    IF riscvKSASIDTable[SHR(asid_base, asidLowBits)] = pool
    THEN /\ riscvKSASIDTable' =
               [riscvKSASIDTable EXCEPT ![SHR(asid_base, asidLowBits)] = NULL]
         /\ UNCHANGED <<asidPools, tlb, tcbVTable>>
         /\ satp' = setVMRoot'
         /\ current_lookup_fault' = Relay(current_lookup_fault, setVMRootFault')
    ELSE UNCHANGED <<riscvKSASIDTable, asidPools, tlb, tcbVTable, satp,
                     current_lookup_fault>>

\* a faulty deleteASID: it does not compare the stored root with vspace
deleteASID_noCompare(asid, vspace) ==
    LET poolPtr == riscvKSASIDTable[SHR(asid, asidLowBits)] IN
    IF poolPtr # NULL
    THEN /\ tlb' = hwASIDFlush(asid)
         /\ asidPools' = [asidPools EXCEPT
                             ![poolPtr][LOWBITS(asid, asidLowBits)] = NULL]
         /\ UNCHANGED <<riscvKSASIDTable, tcbVTable>>
         /\ satp' = setVMRoot'
         /\ current_lookup_fault' = Relay(current_lookup_fault, setVMRootFault')
    ELSE UNCHANGED <<riscvKSASIDTable, asidPools, tlb, tcbVTable, satp,
                     current_lookup_fault>>

deleteASID(asid, vspace) ==
    LET poolPtr == riscvKSASIDTable[SHR(asid, asidLowBits)] IN
    IF poolPtr # NULL /\ asidPools[poolPtr][LOWBITS(asid, asidLowBits)] = vspace
    THEN /\ tlb' = hwASIDFlush(asid)
         /\ asidPools' = [asidPools EXCEPT
                             ![poolPtr][LOWBITS(asid, asidLowBits)] = NULL]
         /\ UNCHANGED <<riscvKSASIDTable, tcbVTable>>
         /\ satp' = setVMRoot'
         /\ current_lookup_fault' = Relay(current_lookup_fault, setVMRootFault')
    ELSE UNCHANGED <<riscvKSASIDTable, asidPools, tlb, tcbVTable, satp,
                     current_lookup_fault>>

\* the registry: what the deletions write
registry == <<riscvKSASIDTable, asidPools>>

\* a call of a kernel function outside an MMU invocation; the reply
\* records the call and its arguments
KernelCall(name, capType, asid, ptr) ==
    /\ ret' = [capType |-> capType, label |-> name, obj |-> asid,
               status |-> "EXCEPTION_NONE", ptr |-> ptr]
    /\ nInvocations' = IF registry' # registry THEN nInvocations + 1 ELSE nInvocations
    /\ UNCHANGED <<mem, ptCaps, frameCaps, poolCaps, untypedHasChildren,
                   current_syscall_error, ksCurThreadState, msgRegister0, halted, debug>>
    /\ UNCHANGED kiVars

\* the base ASIDs of ASID-pool capabilities: aligned to the pool size
ASIDBases == {SHL(i, asidLowBits) : i \in 0 .. nASIDPools - 1}
ASIDs == 0 .. BIT(asidLowBits + asidHighBits) - 1

DeleteASIDPool(asid_base, pool) ==
    /\ CanInvoke
    /\ deleteASIDPool(asid_base, pool)
    /\ KernelCall("deleteASIDPool", "cap_asid_pool_cap", asid_base, pool)

DeleteASID(asid, vspace) ==
    /\ CanInvoke
    /\ deleteASID(asid, vspace)
    /\ KernelCall("deleteASID", "cap_page_table_cap", asid, vspace)

\* the scheduler switches to a thread whose tcbVTable slot holds a copy of
\* cap, and re-resolves its root
Arch_switchToThread(cap) ==
    /\ CanInvoke
    /\ tcbVTable' = cap
    /\ UNCHANGED <<riscvKSASIDTable, asidPools, tlb>>
    /\ satp' = setVMRoot'
    /\ current_lookup_fault' = Relay(current_lookup_fault, setVMRootFault')
    /\ KernelCall("Arch_switchToThread", cap.capType, 0, 0)

\* the current thread runs at user level: the translations it uses are
\* cached under the ASID of the translation root register
userRuns ==
    /\ CanInvoke
    /\ tlb' = tlb \cup {satp.asid}
    /\ UNCHANGED <<mem, ptCaps, frameCaps, poolCaps, untypedHasChildren,
                   riscvKSASIDTable, asidPools, current_syscall_error,
                   current_lookup_fault, ret, ksCurThreadState, msgRegister0,
                   halted, nInvocations, debug, tcbVTable, satp>>
    /\ UNCHANGED kiVars

\* the life cycle of ASID bindings: creation, assignment, deletion, with the
\* current thread switching and running in between
NextASID ==
    \/ \E in \in MakePoolInputs :
          ASIDControlMakePool(in.length, in.parent, in.rootPresent, in.index)
    \/ \E s \in PoolSlots, excap \in {NoExtraCap} \cup PTExtraCaps : ASIDPoolAssign(s, excap)
    \/ \E asid_base \in ASIDBases, pool \in PoolPtrs : DeleteASIDPool(asid_base, pool)
    \/ \E asid \in ASIDs, p \in PTPages : DeleteASID(asid, PagePtr(p))
    \/ \E cap \in {NullCap} \cup {ptCaps[p] : p \in PTPages} : Arch_switchToThread(cap)
    \/ userRuns
    \/ activateThread

SpecASID == Init /\ [][NextASID]_vars

(***************************************************************************)
(* VM faults.                                                              *)
(***************************************************************************)
\* everything but the reply, the halt flag and the state of the fault path
\* and of the kernel images
vspaceVars == <<mem, ptCaps, frameCaps, poolCaps, untypedHasChildren, riscvKSASIDTable,
                asidPools, current_syscall_error, current_lookup_fault,
                ksCurThreadState, msgRegister0, nInvocations, debug, tcbVTable, satp,
                tlb>>

seL4_Fault_VMFault_new(addr, FSR, instructionFault) ==
    [type |-> "seL4_Fault_VMFault", address |-> addr, FSR |-> FSR,
     instructionFault |-> instructionFault]

\* a faulty handleVMFault: an instruction fault steps over the instruction
handleVMFault_skips(r, vm_faultType, addr) ==
    IF vm_faultType \in {"RISCVInstructionPageFault", "RISCVInstructionAccessFault"}
    THEN [status |-> "EXCEPTION_FAULT", regs |-> [r EXCEPT !.NEXTPC = r.SEPC + 4],
          fault |-> seL4_Fault_VMFault_new(addr, "RISCVInstructionAccessFault", TRUE)]
    ELSE [status |-> "EXCEPTION_FAULT", regs |-> r,
          fault |-> seL4_Fault_VMFault_new(addr, "RISCVLoadAccessFault", FALSE)]

\* handleVMFault on a thread with registers r, addr read from sbadaddr: the
\* exception_t returned, the thread's registers and current_fault
handleVMFault(r, vm_faultType, addr) ==
    IF vm_faultType \in {"RISCVLoadPageFault", "RISCVLoadAccessFault"}
    THEN [status |-> "EXCEPTION_FAULT", regs |-> r,
          fault |-> seL4_Fault_VMFault_new(addr, "RISCVLoadAccessFault", FALSE)]
    ELSE IF vm_faultType \in {"RISCVStorePageFault", "RISCVStoreAccessFault"}
    THEN [status |-> "EXCEPTION_FAULT", regs |-> r,
          fault |-> seL4_Fault_VMFault_new(addr, "RISCVStoreAccessFault", FALSE)]
    ELSE IF vm_faultType \in {"RISCVInstructionPageFault", "RISCVInstructionAccessFault"}
    THEN [status |-> "EXCEPTION_FAULT", regs |-> [r EXCEPT !.NEXTPC = r.SEPC],
          fault |-> seL4_Fault_VMFault_new(addr, "RISCVInstructionAccessFault", TRUE)]
    ELSE [status |-> "FAIL", regs |-> r, fault |-> current_fault]

\* vm_fault_type_t values, and a trap cause that is none of them
VMFaultTypes == {"RISCVLoadPageFault", "RISCVLoadAccessFault", "RISCVStorePageFault",
                 "RISCVStoreAccessFault", "RISCVInstructionPageFault",
                 "RISCVInstructionAccessFault"}
OtherTrapCause == "RISCVEnvCall"
\* program counters and faulting addresses
PCs == {0, 4, 8, 12}
FaultAddrs == {0, 8}

\* the current thread traps at pc with a VM fault on addr: the trap entry
\* saves pc in SEPC, then handleVMFault runs
VMFaultTrap(vm_faultType, pc, addr) ==
    /\ ret = NoRet
    /\ ~halted
    /\ LET o == handleVMFault([regs EXCEPT !.SEPC = pc], vm_faultType, addr) IN
       /\ regs' = o.regs
       /\ current_fault' = o.fault
       /\ halted' = (o.status = "FAIL")
       /\ ret' = [capType |-> "cap_null_cap", label |-> "handleVMFault", obj |-> addr,
                  status |-> o.status, ptr |-> vm_faultType, pc |-> pc, was |-> regs]
    /\ UNCHANGED vspaceVars
    /\ UNCHANGED <<kImages, kiStacks, ki>>

\* the thread runs on at user level: its next trap is at another pc
NextVMFault ==
    \/ \E t \in VMFaultTypes \cup {OtherTrapCause}, pc \in PCs, addr \in FaultAddrs :
          VMFaultTrap(t, pc, addr)
    \/ activateThread

SpecVMFault == Init /\ [][NextVMFault]_vars

(***************************************************************************)
(* Kernel images (src/arch/riscv/object/kernelimage.c).  The walker        *)
(* lookupPTSlot(root, vptr), isPTEPageTable, kernelImageUntranslatedBits,  *)
(* kernelStackBase and kernelImageVPtr are not part of the source tree,    *)
(* and neither are the callers of these functions, which validate the      *)
(* arguments: a call that breaks an assertion is followed in a debug build *)
(* only, where the assertion stops the kernel.                             *)
(***************************************************************************)
\* levels of a kernel image: 0 is the root, the last one holds the pages
seL4_KernelImageNumLevels == CONFIG_PT_LEVELS + 1
\* address bits left untranslated by an entry installed at level
kernelImageUntranslatedBits(level) ==
    PT_INDEX_BITS * (CONFIG_PT_LEVELS - level) + seL4_PageBits
\* the entry is valid and points to a next-level table
isPTEPageTable(w) ==
    /\ pte_get_valid(w) = 1
    /\ pte_get_read(w) = 0
    /\ pte_get_write(w) = 0
    /\ pte_get_execute(w) = 0
paddr_to_pptr(paddr) == ptrFromPAddr(paddr)

\* the table an entry points to; the loop of Arch_kiLookupPTSlot computes it
\* with getPPtrFromHWPTE for every entry it stands at, table or not
Arch_kiGetPPtrFromHWPTE(w) == ptrFromPAddr(SHL(pte_get_ppn(w), seL4_PageTableBits))

\* the do-while loop of Arch_kiLookupPTSlot, entered at table pt
RECURSIVE Arch_kiLookupPTSlotLoop(_, _, _, _, _)
Arch_kiLookupPTSlotLoop(m, pt, vptr, depth, ptBitsLeft) ==
    LET bitsLeft == ptBitsLeft - PT_INDEX_BITS
        index == LOWBITS(SHR(vptr, bitsLeft), PT_INDEX_BITS)
        ptSlot == Slot(pt, index)
    IN IF isPTEPageTable(PTEWord(m, ptSlot)) /\ depth - 1 > 0
       THEN Arch_kiLookupPTSlotLoop(m, Arch_kiGetPPtrFromHWPTE(PTEWord(m, ptSlot)), vptr,
                                    depth - 1, bitsLeft)
       ELSE [ptSlot |-> ptSlot, ptBitsLeft |-> bitsLeft]

Arch_kiLookupPTSlot(m, lvl1pt, vptr, depth) ==
    Arch_kiLookupPTSlotLoop(m, lvl1pt, vptr, depth,
                            PT_INDEX_BITS * CONFIG_PT_LEVELS + seL4_PageBits)

\* lookupPTSlot(root, vptr): the walk to the first entry that is no table
kiLookupPTSlot(m, lvl1pt, vptr) == Arch_kiLookupPTSlot(m, lvl1pt, vptr, CONFIG_PT_LEVELS)

\* what a kernel-image operation leaves: memory and images; status ASSERT
\* when an assertion fails in a debug build
KISame == [status |-> "EXCEPTION_NONE", mem |-> mem, kImages |-> kImages]
KIAssert == [KISame EXCEPT !.status = "ASSERT"]

\* a faulty kiMapPTE: every entry is written as a global leaf
kiMapPTE_leafAlways(memory_addr, last_level) ==
    pte_new(SHR(memory_addr, seL4_PageBits), 0, 1, 1, 1, 0, 1, 1, 1, 1)

\* the entry Arch_kernelMemoryMap installs
kiMapPTE(memory_addr, last_level) ==
    pte_new(SHR(memory_addr, seL4_PageBits), 0, 1, 1, B2N(last_level), 0,
            B2N(last_level), B2N(last_level), B2N(last_level), 1)

\* a faulty Arch_kernelMemoryMap: setting the root resets the image
Arch_kernelMemoryMap_resets(image, kimLevel, kimMapAddr, memory_addr) ==
    [KISame EXCEPT !.kImages = [kImages EXCEPT
                       ![image].kiRoot = paddr_to_pptr(memory_addr),
                       ![image].kiStackInitted = FALSE]]

\* the assertions of Arch_kernelMemoryMap hold
kernelMemoryMapAsserts(image, kimLevel, kimMapAddr) ==
    IF kimLevel = 0 THEN kImages[image].kiRoot = NULL
    ELSE /\ kImages[image].kiRoot # NULL
         /\ LET pt_ret == kiLookupPTSlot(mem, kImages[image].kiRoot, kimMapAddr) IN
              /\ pte_get_valid(PTEWord(mem, pt_ret.ptSlot)) = 0
              /\ pt_ret.ptBitsLeft = kernelImageUntranslatedBits(kimLevel)

Arch_kernelMemoryMap(image, kimLevel, kimMapAddr, memory_addr) ==
    IF debug /\ ~kernelMemoryMapAsserts(image, kimLevel, kimMapAddr) THEN KIAssert
    ELSE IF kimLevel = 0
    THEN [KISame EXCEPT
             !.kImages = [kImages EXCEPT ![image].kiRoot = paddr_to_pptr(memory_addr)]]
    ELSE LET last_level == (kimLevel = seL4_KernelImageNumLevels - 1)
             pt_ret == kiLookupPTSlot(mem, kImages[image].kiRoot, kimMapAddr)
         IN [KISame EXCEPT
                !.mem = StorePTE(mem, pt_ret.ptSlot, kiMapPTE(memory_addr, last_level))]

\* pte_ptr_set_ppn
pte_set_ppn(w, ppn) == LOWBITS(w, PTE_PPN_SHIFT) + SHL(ppn, PTE_PPN_SHIFT)

\* the offset, in pages, of the region of addr within the superpage that
\* leaves ptBitsLeft bits untranslated:
\* ((addr & MASK(ptBitsLeft)) & ~MASK(untranslated)) >> seL4_PageBits
kiSuperpageOffset(addr, ptBitsLeft, untranslated) ==
    SHR(SHL(SHR(LOWBITS(addr, ptBitsLeft), untranslated), untranslated), seL4_PageBits)

\* a faulty Arch_kiPTMapping: the entry of a superpage is returned as it is
Arch_kiPTMapping_noOffset(m, image_root, addr, depth) ==
    LET slot == Arch_kiLookupPTSlot(m, image_root, addr, depth)
    IN [pte |-> PTEWord(m, slot.ptSlot),
        ok |-> slot.ptBitsLeft >= kernelImageUntranslatedBits(depth)]

\* the entry that maps addr at depth in the image, and whether the
\* assertion on the bits left holds
Arch_kiPTMapping(m, image_root, addr, depth) ==
    LET slot == Arch_kiLookupPTSlot(m, image_root, addr, depth)
        entry == PTEWord(m, slot.ptSlot)
    IN IF slot.ptBitsLeft > kernelImageUntranslatedBits(depth)
       THEN LET offset == kiSuperpageOffset(addr, slot.ptBitsLeft,
                                            kernelImageUntranslatedBits(depth))
            IN [pte |-> pte_set_ppn(entry, pte_get_ppn(entry) + offset), ok |-> TRUE]
       ELSE [pte |-> entry, ok |-> slot.ptBitsLeft = kernelImageUntranslatedBits(depth)]

Arch_kiPagePPtr(m, image_root, addr, depth) ==
    Arch_kiGetPPtrFromHWPTE(Arch_kiPTMapping(m, image_root, addr, depth).pte)

\* memcpy(dest_data, src_data, n) on memory m, in whole pages
RECURSIVE memcpyPages(_, _, _, _)
memcpyPages(m, dest_page, src_page, n) ==
    IF n = 0 THEN m
    ELSE memcpyPages([m EXCEPT ![dest_page] = m[src_page]], dest_page + 1, src_page + 1,
                     n - 1)

KIMapShared == "KIMapShared"
KIMapCopied == "KIMapCopied"

\* a faulty Arch_kernelImageCloneEntry: the copying strategy installs the
\* source's mapping instead of copying the page
Arch_kernelImageCloneEntry_aliases(dest_root, src_root, clone_addr, depth, strategy) ==
    LET dest_slot == Arch_kiLookupPTSlot(mem, dest_root, clone_addr, depth)
    IN [KISame EXCEPT
           !.mem = StorePTE(mem, dest_slot.ptSlot,
                            Arch_kiPTMapping(mem, src_root, clone_addr, depth).pte)]

\* the assertions of Arch_kernelImageCloneEntry, and of Arch_kiPTMapping on
\* the source, hold
kernelImageCloneEntryAsserts(dest_root, src_root, clone_addr, depth, strategy) ==
    LET dest_slot == Arch_kiLookupPTSlot(mem, dest_root, clone_addr, depth)
        dest_pte == PTEWord(mem, dest_slot.ptSlot)
        src_mapping == Arch_kiPTMapping(mem, src_root, clone_addr, depth)
    IN /\ dest_slot.ptBitsLeft = kernelImageUntranslatedBits(depth)
       /\ src_mapping.ok
       /\ IF strategy = KIMapCopied
          THEN /\ pte_get_valid(dest_pte) = 1
               /\ pte_get_global(dest_pte) = 1
               /\ Arch_kiGetPPtrFromHWPTE(src_mapping.pte) # NULL
               /\ Arch_kiGetPPtrFromHWPTE(dest_pte) # NULL
          ELSE /\ pte_get_ppn(dest_pte) = 0
               /\ pte_get_valid(dest_pte) = 0

Arch_kernelImageCloneEntry(dest_root, src_root, clone_addr, depth, strategy) ==
    LET dest_slot == Arch_kiLookupPTSlot(mem, dest_root, clone_addr, depth)
        dest_pte == PTEWord(mem, dest_slot.ptSlot)
        src_mapping == Arch_kiPTMapping(mem, src_root, clone_addr, depth)
    IN IF debug /\ ~kernelImageCloneEntryAsserts(dest_root, src_root, clone_addr, depth,
                                                 strategy)
       THEN KIAssert
       ELSE IF strategy = KIMapCopied
       THEN [KISame EXCEPT
                !.mem = memcpyPages(mem, pte_get_ppn(dest_pte), pte_get_ppn(src_mapping.pte),
                                    BIT(kernelImageUntranslatedBits(depth) - seL4_PageBits))]
       ELSE [KISame EXCEPT !.mem = StorePTE(mem, dest_slot.ptSlot, src_mapping.pte)]

\* the root register value that makes the image the running one
kiVSpaceRoot(image) ==
    setVSpaceRoot(addrFromPPtr(kImages[image].kiRoot), kImages[image].kiASID)

\* the words of the kernel stack the switching kernel runs on
kernelStack == [a \in StackAddrs |-> a + 1]

\* a faulty copy step: the word lands one word lower in the private stack
copyStackWord_shifted(k, stacks) ==
    [ki |-> [k EXCEPT !.stack_p = k.stack_p - 8, !.image_p = k.image_p - 8],
     kiStacks |-> [stacks EXCEPT ![k.image][IF k.image_p - 8 = 0 THEN 0 ELSE k.image_p - 16] =
                                     kernelStack[k.stack_p - 8]]]

\* one round of the copy loop: stack_p -= 8; image_p -= 8; *image_p = *stack_p
copyStackWord(k, stacks) ==
    [ki |-> [k EXCEPT !.stack_p = k.stack_p - 8, !.image_p = k.image_p - 8],
     kiStacks |-> [stacks EXCEPT ![k.image][k.image_p - 8] = kernelStack[k.stack_p - 8]]]

\* a faulty switch to an initialised image: the private stack is copied again
Arch_setKernelImageInitted_recopies(image) ==
    [satp |-> kiVSpaceRoot(image), kImages |-> kImages,
     kiStacks |-> [kiStacks EXCEPT ![image] = kernelStack]]

\* Arch_setKernelImage on an image whose private stack is initialised
Arch_setKernelImageInitted(image) ==
    [satp |-> kiVSpaceRoot(image), kImages |-> kImages, kiStacks |-> kiStacks]

\* the variables no kernel-image operation touches
kiFrame == <<ptCaps, frameCaps, poolCaps, untypedHasChildren, riscvKSASIDTable, asidPools,
             current_syscall_error, current_lookup_fault, ksCurThreadState, msgRegister0,
             debug, tcbVTable, tlb, regs, current_fault>>

KIRet(name, image, status, ptr) ==
    [capType |-> "cap_null_cap", label |-> name, obj |-> image, status |-> status,
     ptr |-> ptr]

\* the pages given to kernel images: each image has a root, a second-level
\* table and a data page of its own
KIRootPages == {SHR(physBase, seL4_PageBits) + i : i \in Images}
KITablePages == {SHR(physBase, seL4_PageBits) + 2 + i : i \in Images}
KIDataPages == {SHR(physBase, seL4_PageBits) + 4 + i : i \in Images}

\* entries refer to no memory but the pages handed to kernel images: the
\* words of other pages are not modelled
KIModelled(m) ==
    \A p \in KIRootPages \cup KITablePages \cup KIDataPages : \A i \in 0 .. PTEntries - 1 :
        pte_get_ppn(m[p][i]) \in {0} \cup KIRootPages \cup KITablePages \cup KIDataPages

\* the number of mapping and cloning operations followed
MaxKIOperations == 7
CanInvokeKI == ret = NoRet /\ ~halted /\ nInvocations < MaxKIOperations /\ ki.pc = "idle"

KernelMemoryMap(image, kimLevel, kimMapAddr, page) ==
    /\ CanInvokeKI
    /\ debug \/ kernelMemoryMapAsserts(image, kimLevel, kimMapAddr)
    /\ LET o == Arch_kernelMemoryMap(image, kimLevel, kimMapAddr, SHL(page, seL4_PageBits)) IN
        /\ KIModelled(o.mem)
        /\ mem' = o.mem
        /\ kImages' = o.kImages
        /\ halted' = (o.status = "ASSERT")
        /\ ret' = [capType |-> "cap_null_cap", label |-> "Arch_kernelMemoryMap",
                   obj |-> image, status |-> o.status, ptr |-> kimMapAddr,
                   level |-> kimLevel]
    /\ nInvocations' = nInvocations + 1
    /\ UNCHANGED <<satp, kiStacks, ki>>
    /\ UNCHANGED kiFrame

\* an image is cloned from another image
KernelImageCloneEntry(dest, src, clone_addr, depth, strategy) ==
    /\ CanInvokeKI
    /\ dest # src
    /\ kImages[dest].kiRoot # NULL
    /\ kImages[src].kiRoot # NULL
    /\ debug \/ kernelImageCloneEntryAsserts(kImages[dest].kiRoot, kImages[src].kiRoot,
                                             clone_addr, depth, strategy)
    /\ LET o == Arch_kernelImageCloneEntry(kImages[dest].kiRoot, kImages[src].kiRoot,
                                           clone_addr, depth, strategy) IN
        /\ KIModelled(o.mem)
        /\ mem' = o.mem
        /\ kImages' = o.kImages
        /\ halted' = (o.status = "ASSERT")
        /\ ret' = [capType |-> "cap_null_cap", label |-> "Arch_kernelImageCloneEntry",
                   obj |-> dest, status |-> o.status, ptr |-> clone_addr, src |-> src,
                   depth |-> depth, strategy |-> strategy]
    /\ nInvocations' = nInvocations + 1
    /\ UNCHANGED <<satp, kiStacks, ki>>
    /\ UNCHANGED kiFrame

\* Arch_setKernelImage, lines 164-170: the image has its private stack
SetKernelImageInitted(image, sp) ==
    /\ CanInvokeKI
    /\ kImages[image].kiRoot # NULL
    /\ kImages[image].kiStackInitted
    /\ LET o == Arch_setKernelImageInitted(image) IN
        /\ satp' = o.satp
        /\ kImages' = o.kImages
        /\ kiStacks' = o.kiStacks
    /\ ret' = KIRet("Arch_setKernelImage", image, "EXCEPTION_NONE", sp)
    /\ UNCHANGED <<mem, halted, nInvocations, ki>>
    /\ UNCHANGED kiFrame

\* Arch_setKernelImage, lines 154-184: first switch to the image, up to the loop
SetKernelImageBegin(image, sp) ==
    /\ CanInvokeKI
    /\ kImages[image].kiRoot # NULL
    /\ ~kImages[image].kiStackInitted
    /\ ki' = [pc |-> "copy", image |-> image, stack_p |-> kernelStackBase,
              image_p |-> kernelStackBase, sp |-> sp, fenced |-> FALSE]
    /\ UNCHANGED <<mem, halted, nInvocations, ret, satp, kImages, kiStacks>>
    /\ UNCHANGED kiFrame

\* lines 188-198: one round of the loop
SetKernelImageCopy ==
    /\ ki.pc = "copy"
    /\ ki.stack_p # ki.sp
    /\ LET o == copyStackWord(ki, kiStacks) IN
        /\ ki' = o.ki
        /\ kiStacks' = o.kiStacks
    /\ UNCHANGED <<mem, halted, nInvocations, ret, satp, kImages>>
    /\ UNCHANGED kiFrame

\* lines 188 and 199-200: the loop is left, fence
SetKernelImageFence ==
    /\ ki.pc = "copy"
    /\ ki.stack_p = ki.sp
    /\ ki' = [ki EXCEPT !.pc = "setroot", !.fenced = TRUE]
    /\ UNCHANGED <<mem, halted, nInvocations, ret, satp, kImages, kiStacks>>
    /\ UNCHANGED kiFrame

\* line 205: setVSpaceRoot
SetKernelImageRoot ==
    /\ ki.pc = "setroot"
    /\ satp' = kiVSpaceRoot(ki.image)
    /\ ki' = [ki EXCEPT !.pc = "setflag"]
    /\ UNCHANGED <<mem, halted, nInvocations, ret, kImages, kiStacks>>
    /\ UNCHANGED kiFrame

\* line 209: image->kiStackInitted = true
SetKernelImageFlag ==
    /\ ki.pc = "setflag"
    /\ kImages' = [kImages EXCEPT ![ki.image].kiStackInitted = TRUE]
    /\ ret' = KIRet("Arch_setKernelImage", ki.image, "EXCEPTION_NONE", ki.sp)
    /\ ki' = KIIdle
    /\ UNCHANGED <<mem, halted, nInvocations, satp, kiStacks>>
    /\ UNCHANGED kiFrame

\* the page the hardware translates addr to under the hierarchy rooted at
\* root, or NoPage when the translation faults
NoPage == 0 - 1
PTEIsLeaf(w) ==
    pte_get_valid(w) = 1 /\ pte_get_read(w) + pte_get_write(w) + pte_get_execute(w) > 0
HWTranslate(m, root, addr) ==
    LET e1 == m[PageOf(root)][RISCV_GET_PT_INDEX(addr, 1)]
        e2 == m[pte_get_ppn(e1)][RISCV_GET_PT_INDEX(addr, CONFIG_PT_LEVELS)]
    IN IF pte_get_valid(e1) = 0 THEN NoPage
       ELSE IF PTEIsLeaf(e1) THEN pte_get_ppn(e1) + RISCV_GET_PT_INDEX(addr, CONFIG_PT_LEVELS)
       ELSE IF PTEIsLeaf(e2) THEN pte_get_ppn(e2)
       ELSE NoPage

\* the kernel, running on the image the root register names, stores a word
\* to a page the image maps
KIStoreValues == {1}
kernelStore(addr, v) ==
    /\ ret = NoRet /\ ~halted /\ ki.pc = "idle"
    /\ \E image \in Images :
          /\ kImages[image].kiRoot # NULL
          /\ satp = kiVSpaceRoot(image)
          /\ HWTranslate(mem, kImages[image].kiRoot, addr) \in KIDataPages
          /\ mem' = [mem EXCEPT ![HWTranslate(mem, kImages[image].kiRoot, addr)][0] = v]
    /\ UNCHANGED <<halted, nInvocations, ret, satp, kImages, kiStacks, ki>>
    /\ UNCHANGED kiFrame

\* the inputs of the kernel-image operations
KILevels == 0 .. seL4_KernelImageNumLevels - 1
KIMapAddrs == {VAddr(0, 0, 0), VAddr(0, 1, 0)}
KIPageOfLevel(image, l) ==
    SHR(physBase, seL4_PageBits) + 2 * (IF l < CONFIG_PT_LEVELS THEN l ELSE CONFIG_PT_LEVELS)
    + image
StackPointers == {SHL(w, 3) : w \in 0 .. StackWords}

\* mapping, cloning and switching; the switch with one word on the stack
NextKI ==
    \/ \E image \in Images, l \in KILevels, addr \in KIMapAddrs :
          KernelMemoryMap(image, l, addr, KIPageOfLevel(image, l))
    \/ \E dest \in Images, src \in Images, addr \in KIMapAddrs,
          depth \in 1 .. seL4_KernelImageNumLevels - 1,
          strategy \in {KIMapShared, KIMapCopied} :
          KernelImageCloneEntry(dest, src, addr, depth, strategy)
    \/ \E addr \in KIMapAddrs, v \in KIStoreValues : kernelStore(addr, v)
    \/ \E image \in Images : SetKernelImageInitted(image, kernelStackBase - 8)
    \/ \E image \in Images : SetKernelImageBegin(image, kernelStackBase - 8)
    \/ SetKernelImageCopy
    \/ SetKernelImageFence
    \/ SetKernelImageRoot
    \/ SetKernelImageFlag
    \/ activateThread

SpecKI == Init /\ [][NextKI]_vars

\* switching between images whose roots are set, at every stack depth
NextKISwitch ==
    \/ \E image \in Images, addr \in KIMapAddrs :
          KernelMemoryMap(image, 0, addr, KIPageOfLevel(image, 0))
    \/ \E image \in Images, sp \in StackPointers : SetKernelImageInitted(image, sp)
    \/ \E image \in Images, sp \in StackPointers : SetKernelImageBegin(image, sp)
    \/ SetKernelImageCopy
    \/ SetKernelImageFence
    \/ SetKernelImageRoot
    \/ SetKernelImageFlag
    \/ activateThread

SpecKISwitch == Init /\ [][NextKISwitch]_vars

\* the switch is one uninterrupted run of kernel code: each of its steps is
\* eventually taken
SpecKISwitchLive ==
    /\ SpecKISwitch
    /\ WF_vars(SetKernelImageCopy)
    /\ WF_vars(SetKernelImageFence)
    /\ WF_vars(SetKernelImageRoot)
    /\ WF_vars(SetKernelImageFlag)

(***************************************************************************)
(* The walker lookupPTSlot on its own: the tables it walks are drawn from  *)
(* the entries the mapping operations write.                               *)
(***************************************************************************)
\* the table walked from and the table its entries may point to
WalkRoot == CHOOSE p \in PTPages : \A q \in PTPages : p <= q
WalkTable == CHOOSE p \in PTPages \ {WalkRoot} : \A q \in PTPages \ {WalkRoot} : p <= q
\* what a slot of the root may hold: nothing, a table, a mega-page leaf, a
\* kernel-window entry
WalkRootEntries ==
    {pte_pte_invalid_new, PageTablePTE(PagePtr(WalkTable))}
    \cup {makeUserPTE(addrFromPPtr(PagePtr(f)), TRUE, "VMReadWrite") : f \in MegaFramePages}
    \cup {map_kernel_window[i] : i \in RISCV_GET_PT_INDEX(kernelBase, 1) .. PTEntries - 1}
\* what a slot of the second-level table may hold: nothing or a page leaf
WalkTableEntries ==
    {pte_pte_invalid_new}
    \cup {makeUserPTE(addrFromPPtr(PagePtr(f)), FALSE, "VMReadWrite") : f \in SmallFramePages}
WalkMems ==
    {[p \in Pages |-> IF p = KernelPTPage THEN map_kernel_window
                      ELSE IF p = WalkRoot THEN r
                      ELSE IF p = WalkTable THEN t
                      ELSE ZeroPage] :
        r \in [0 .. PTEntries - 1 -> WalkRootEntries],
        t \in [0 .. PTEntries - 1 -> WalkTableEntries]}
LookupVAddrs == {VAddr(i1, i2, off) : i1 \in 0 .. PTEntries - 1, i2 \in 0 .. PTEntries - 1,
                                    off \in {0, BIT(seL4_PageBits) - 1}}

InitWalk ==
    /\ mem \in WalkMems
    /\ InitRest

\* a caller walks vptr from a root to level ptLevel; the callers pass the
\* base of a page-table capability or a root findVSpaceForASID resolved
Walk(lvl1pt, vptr, ptLevel) ==
    /\ ret = NoRet
    /\ ~halted
    /\ LET r == lookupPTSlot(mem, lvl1pt, vptr, ptLevel) IN
        /\ ret' = [capType |-> "cap_null_cap", label |-> "lookupPTSlot", obj |-> lvl1pt,
                   status |-> r.status, ptr |-> vptr, ptLevel |-> ptLevel,
                   ptSlot |-> r.ptSlot]
        /\ current_lookup_fault' = Relay(current_lookup_fault, r.lf)
        /\ halted' = (r.status = "ASSERT")
    /\ UNCHANGED <<mem, ptCaps, frameCaps, poolCaps, untypedHasChildren, riscvKSASIDTable,
                   asidPools, current_syscall_error, ksCurThreadState, msgRegister0,
                   nInvocations, debug, tcbVTable, satp, tlb>>
    /\ UNCHANGED kiVars

NextWalk ==
    \/ \E vptr \in LookupVAddrs, ptLevel \in 1 .. CONFIG_PT_LEVELS :
          Walk(PagePtr(WalkRoot), vptr, ptLevel)
    \/ activateThread

SpecWalk == InitWalk /\ [][NextWalk]_vars

(***************************************************************************)
(* Arch_kiPTMapping on its own: the source hierarchy is drawn from the     *)
(* entries Arch_kernelMemoryMap and map_kernel_window write.               *)
(***************************************************************************)
\* the root and the second-level table of the source image
KISrcRoot == CHOOSE p \in KIRootPages : \A q \in KIRootPages : p <= q
KISrcTable == CHOOSE p \in KITablePages : \A q \in KITablePages : p <= q
\* the physical pages a superpage leaf of the source may start at
KISuperPages == {p \in Pages : p > KISrcTable /\ LOWBITS(p, PT_INDEX_BITS) = 0}
\* what a slot of the source root may hold: nothing, the table, a superpage
KISrcRootEntries ==
    {pte_pte_invalid_new, kiMapPTE(SHL(KISrcTable, seL4_PageBits), FALSE)}
    \cup {kiMapPTE(SHL(p, seL4_PageBits), TRUE) : p \in KISuperPages}
\* what a slot of the source table may hold: nothing or a page
KISrcTableEntries ==
    {pte_pte_invalid_new} \cup {kiMapPTE(SHL(p, seL4_PageBits), TRUE) : p \in KIDataPages}
KISrcMems ==
    {[p \in Pages |-> IF p = KernelPTPage THEN map_kernel_window
                      ELSE IF p = KISrcRoot THEN r
                      ELSE IF p = KISrcTable THEN t
                      ELSE ZeroPage] :
        r \in [0 .. PTEntries - 1 -> KISrcRootEntries],
        t \in [0 .. PTEntries - 1 -> KISrcTableEntries]}

InitKIPTMapping ==
    /\ mem \in KISrcMems
    /\ InitRest

\* Arch_kernelImageCloneEntry asks for the entry that maps addr at depth
KIPTMapping(image_root, addr, depth) ==
    /\ ret = NoRet
    /\ ~halted
    /\ LET r == Arch_kiPTMapping(mem, image_root, addr, depth)
           failed == debug /\ ~r.ok
       IN /\ ret' = [capType |-> "cap_null_cap", label |-> "Arch_kiPTMapping",
                     obj |-> image_root, status |-> IF failed THEN "ASSERT"
                                                    ELSE "EXCEPTION_NONE",
                     ptr |-> addr, depth |-> depth, pte |-> r.pte]
          /\ halted' = failed
    /\ UNCHANGED <<mem, ptCaps, frameCaps, poolCaps, untypedHasChildren, riscvKSASIDTable,
                   asidPools, current_syscall_error, current_lookup_fault, ksCurThreadState,
                   msgRegister0, nInvocations, debug, tcbVTable, satp, tlb>>
    /\ UNCHANGED kiVars

NextKIPTMapping ==
    \/ \E addr \in LookupVAddrs, depth \in 1 .. CONFIG_PT_LEVELS :
          KIPTMapping(PagePtr(KISrcRoot), addr, depth)
    \/ activateThread

SpecKIPTMapping == InitKIPTMapping /\ [][NextKIPTMapping]_vars

(***************************************************************************)
(* makeUserPTE on its own, with the rights PageMap and PageRemap pass it:  *)
(* the rights of the frame capability masked by the rights argument.       *)
(***************************************************************************)
\* the rights a frame capability carries after any masking of a read-write
\* capability that leaves it some access
UserCapRights == {"VMReadOnly", "VMReadWrite", "VMWriteOnly"}
CapRightsMasks == [capAllowRead : BOOLEAN, capAllowWrite : BOOLEAN]
ExecuteNever == BOOLEAN

\* the entry decodeRISCVFrameInvocation builds for the frame at page p
MakeUserPTE(p, capVMRights, rightsMask, executeNever) ==
    /\ ret = NoRet
    /\ ~halted
    /\ ret' = [capType |-> "cap_frame_cap", label |-> "makeUserPTE", obj |-> p,
               status |-> "EXCEPTION_NONE", capVMRights |-> capVMRights,
               rightsMask |-> rightsMask, executeNever |-> executeNever,
               pte |-> makeUserPTE(addrFromPPtr(PagePtr(p)), ~executeNever,
                                   maskVMRights(capVMRights, rightsMask))]
    /\ UNCHANGED <<mem, ptCaps, frameCaps, poolCaps, untypedHasChildren, riscvKSASIDTable,
                   asidPools, current_syscall_error, current_lookup_fault, ksCurThreadState,
                   msgRegister0, halted, nInvocations, debug, tcbVTable, satp, tlb>>
    /\ UNCHANGED kiVars

NextUserPTE ==
    \/ \E p \in FramePages, capVMRights \in UserCapRights, rightsMask \in CapRightsMasks,
          executeNever \in ExecuteNever :
          MakeUserPTE(p, capVMRights, rightsMask, executeNever)
    \/ activateThread

SpecUserPTE == Init /\ [][NextUserPTE]_vars

(***************************************************************************)
(* Properties.                                                             *)
(***************************************************************************)
\* the invocation that is being replied to succeeded
Succeeded(capType, label) ==
    ret.capType = capType /\ ret.label = label /\ ret.status = "EXCEPTION_NONE"

\* the level of a frame's size class
FrameLevel(cap) == RISCVpageAtPTLevel(cap.capFSize)
\* the physical page number of an object
PPN(pptr) == SHR(addrFromPPtr(pptr), seL4_PageBits)
\* a valid PTE with one of read, write, execute set
IsLeaf(pte) == pte_get_valid(pte) = 1 /\ ~isValidHWPageTable(pte)

\* in memory m, the walk of the frame capability's address space at its mapped
\* address reaches a valid leaf PTE of the frame
FrameMappingPresent(m, cap) ==
    LET find_ret == findVSpaceForASID(cap.capFMappedASID)
        lu_ret == lookupPTSlot(m, find_ret.vspace_root, cap.capFMappedAddress,
                               FrameLevel(cap))
    IN
    /\ lu_ret.status = "EXCEPTION_NONE"
    /\ IsLeaf(PTEWord(m, lu_ret.ptSlot))
    /\ pte_get_ppn(PTEWord(m, lu_ret.ptSlot)) = PPN(cap.capFBasePtr)

\* C1: every frame capability whose mapped ASID is not the invalid ASID and
\* resolves to a root has, in that root at its mapped address and at the level
\* of its size class, a valid leaf PTE whose page number is the frame's base.
C1_FrameCapMatchesPTE ==
    \A f \in FramePages :
        LET cap == frameCaps[f] IN
        (/\ cap.capFMappedASID # asidInvalid
         /\ findVSpaceForASID(cap.capFMappedASID).status = "EXCEPTION_NONE")
        => FrameMappingPresent(mem, cap)

\* the PTE slots of the page-table objects
TableSlots == {Slot(PagePtr(p), i) : p \in PTPages, i \in 0 .. PTEntries - 1}
\* the slots of page tables that hold, in memory m, a pointer to table p
PointersTo(m, p) ==
    {s \in TableSlots : /\ isValidHWPageTable(PTEWord(m, s))
                        /\ getPPtrFromHWPTE(PTEWord(m, s)) = PagePtr(p)}

\* C2: no page table is the target of non-leaf PTEs in two different slots
\* (PageTableMap on an already mapped page-table capability installs no
\* second pointer to the table).
C2_OneParentPerTable == \A p \in PTPages : Cardinality(PointersTo(mem, p)) <= 1

\* the slot of T's parent that holds the pointer to T (two levels: the parent
\* is the root of the capability's address space)
ParentSlot(cap) ==
    Slot(findVSpaceForASID(cap.capPTMappedASID).vspace_root,
         RISCV_GET_PT_INDEX(cap.capPTMappedAddress, 1))
\* the capability's ASID is bound and its parent slot points to its table
ParentChainIntact(m, cap) ==
    /\ findVSpaceForASID(cap.capPTMappedASID).status = "EXCEPTION_NONE"
    /\ isValidHWPageTable(PTEWord(m, ParentSlot(cap)))
    /\ getPPtrFromHWPTE(PTEWord(m, ParentSlot(cap))) = cap.capPTBasePtr
\* a page-table capability with its mapped fields reset
UnmappedPTCap(cap) ==
    /\ cap.capPTIsMapped = 0
    /\ cap.capPTMappedASID = asidInvalid
    /\ cap.capPTMappedAddress = 0

\* C3: PageTableUnmap on a mapped page-table capability T, its ASID bound and
\* its parent chain intact, leaves the parent slot that pointed to T all-zero
\* and the capability's mapped fields reset.
C3_PageTableUnmapClearsParent ==
    [][(/\ ret'.capType = "cap_page_table_cap"
        /\ ret'.label = "RISCVPageTableUnmap"
        /\ ret'.status = "EXCEPTION_NONE"
        /\ ptCaps[ret'.obj].capPTIsMapped = 1
        /\ ParentChainIntact(mem, ptCaps[ret'.obj]))
       => (/\ PTEWord(mem', ParentSlot(ptCaps[ret'.obj])) = 0
           /\ UnmappedPTCap(ptCaps'[ret'.obj]))]_vars

\* C4: an MMU invocation that returns a syscall error leaves every page table
\* and frame, every capability slot, the ASID table, every ASID pool, the
\* invoking thread's state and its message register as they were.
C4_ErrorsChangeNothing ==
    [][ret'.status = "EXCEPTION_SYSCALL_ERROR"
       => (/\ objects' = objects
           /\ ksCurThreadState' = ksCurThreadState
           /\ msgRegister0' = msgRegister0)]_vars

\* C4 case: a PageMap has failed with a syscall error while mappings exist
C4_Witness ==
    /\ ret.capType = "cap_frame_cap"
    /\ ret.label = "RISCVPageMap"
    /\ ret.status = "EXCEPTION_SYSCALL_ERROR"
    /\ current_syscall_error.type = "seL4_InvalidCapability"
    /\ \E f \in FramePages : frameCaps[f].capFMappedASID # asidInvalid

\* every rights mask and every attribute word
RightsMasks == {[capAllowRead |-> r, capAllowWrite |-> w] : r \in BOOLEAN, w \in BOOLEAN}
Attributes == {[riscvExecuteNever |-> x] : x \in BOOLEAN}

\* in memory m the walk of root at vaddr to the frame's level returns a slot
\* whose PTE is valid, has the frame's page number, execute = ~executeNever
\* and the read, write and user bits of the masked rights
RoundTrip(m, root, vaddr, cap, rightsMask, attr) ==
    LET lu_ret == lookupPTSlot(m, root, vaddr, FrameLevel(cap))
        pte == PTEWord(m, lu_ret.ptSlot)
        vmRights == maskVMRights(cap.capFVMRights, rightsMask)
    IN
    /\ lu_ret.status = "EXCEPTION_NONE"
    /\ pte_get_valid(pte) = 1
    /\ pte_get_ppn(pte) = PPN(cap.capFBasePtr)
    /\ pte_get_execute(pte) = B2N(~attr.riscvExecuteNever)
    /\ pte_get_read(pte) = RISCVGetReadFromVMRights(vmRights)
    /\ pte_get_write(pte) = RISCVGetWriteFromVMRights(vmRights)
    /\ pte_get_user(pte) = RISCVGetUserFromVMRights(vmRights)

\* C5: after a successful PageMap of frame F at vaddr V with rights mask m and
\* attributes attr under a valid root capability R, the walk of R at V to F's
\* level returns a slot
\* whose PTE is valid with F's page number, execute = ~executeNever(attr) and
\* the read/write/user bits of maskVMRights(F.rights, m); F's capability
\* records R's ASID and V.
C5_PageMapRoundTrip ==
    CanInvoke =>
    \A f \in FramePages, e \in PTExtraCaps, v \in AlignedVAddrs,
       rightsMask \in RightsMasks, attr \in Attributes :
        LET o == decodeRISCVFrameInvocation("RISCVPageMap", 3, f, e, v, rightsMask, attr)
        IN
        (isVTableRoot(ExtraCap(e)) /\ o.status = "EXCEPTION_NONE")
        => (/\ o.frameCaps[f].capFMappedASID = ExtraCap(e).capPTMappedASID
            /\ o.frameCaps[f].capFMappedAddress = v
            /\ \A m \in o.mems :
                  RoundTrip(m, ExtraCap(e).capPTBasePtr, v, frameCaps[f], rightsMask, attr))

\* C5 case: a PageMap with all rights and execute permission has succeeded and
\* the walk of the recorded address space finds the writable, executable PTE
C5_Witness ==
    /\ Succeeded("cap_frame_cap", "RISCVPageMap")
    /\ frameCaps[ret.obj].capFMappedASID # asidInvalid
    /\ RoundTrip(mem, findVSpaceForASID(frameCaps[ret.obj].capFMappedASID).vspace_root,
                 frameCaps[ret.obj].capFMappedAddress, frameCaps[ret.obj],
                 [capAllowRead |-> TRUE, capAllowWrite |-> TRUE],
                 [riscvExecuteNever |-> FALSE])
    /\ frameCaps[ret.obj].capFVMRights = "VMReadWrite"

\* in memory m, the walk of the frame capability's address space at its mapped
\* address reaches a valid PTE with the frame's page number (as PageMap left it)
MappingInPlace(m, cap) ==
    LET find_ret == findVSpaceForASID(cap.capFMappedASID)
        lu_ret == lookupPTSlot(m, find_ret.vspace_root, cap.capFMappedAddress,
                               FrameLevel(cap))
    IN
    /\ cap.capFMappedASID # asidInvalid
    /\ find_ret.status = "EXCEPTION_NONE"
    /\ lu_ret.status = "EXCEPTION_NONE"
    /\ pte_get_valid(PTEWord(m, lu_ret.ptSlot)) = 1
    /\ pte_get_ppn(PTEWord(m, lu_ret.ptSlot)) = PPN(cap.capFBasePtr)

\* the walker lookup, in memory m, at the capability's mapped address to the
\* frame's level in the capability's address space
LookupAtMapping(m, cap) ==
    lookupPTSlot(m, findVSpaceForASID(cap.capFMappedASID).vspace_root,
                 cap.capFMappedAddress, FrameLevel(cap))

\* a PageUnmap of a frame whose mapping is in place is replied to with success
UnmapOfMappedFrame ==
    /\ ret'.capType = "cap_frame_cap"
    /\ ret'.label = "RISCVPageUnmap"
    /\ ret'.status = "EXCEPTION_NONE"
    /\ MappingInPlace(mem, frameCaps[ret'.obj])

\* C6 as stated: after PageMap of a frame at V followed by PageUnmap of that
\* frame, the walker lookup at V (to the frame's level, in the same root)
\* reports a MissingCapability lookup fault rather than success, and no valid
\* PTE for the frame remains at V.
C6_UnmapThenLookupFaults ==
    [][UnmapOfMappedFrame
       => LET lu_ret == LookupAtMapping(mem', frameCaps[ret'.obj]) IN
          /\ lu_ret.status = "EXCEPTION_LOOKUP_FAULT"
          /\ lu_ret.lf.type = "missing_capability"
          /\ pte_get_valid(PTEWord(mem', lu_ret.ptSlot)) = 0]_vars

\* C6 amended: after PageMap of a frame at V followed by PageUnmap of that
\* frame, the walker lookup at V (to the frame's level, in the same root)
\* returns success with the slot the frame was mapped in, and that slot holds
\* the all-zero PTE: no valid PTE for the frame remains at V.
C6_UnmapThenLookupFindsEmptySlot ==
    [][UnmapOfMappedFrame
       => LET lu_ret == LookupAtMapping(mem', frameCaps[ret'.obj]) IN
          /\ lu_ret.status = "EXCEPTION_NONE"
          /\ lu_ret.ptSlot = LookupAtMapping(mem, frameCaps[ret'.obj]).ptSlot
          /\ PTEWord(mem', lu_ret.ptSlot) = 0]_vars

\* C6 case: a PageUnmap can be taken on a frame mapped through a second-level
\* table, and it leaves the frame's slot empty below the table that stays
C6_Witness ==
    /\ CanInvoke
    /\ \E f \in SmallFramePages :
          LET o == decodeRISCVFrameInvocation("RISCVPageUnmap", 0, f, NoExtraCap, 0,
                                              NoRights, NoAttr)
          IN
          /\ MappingInPlace(mem, frameCaps[f])
          /\ o.status = "EXCEPTION_NONE"
          /\ \A m \in o.mems :
                /\ LookupAtMapping(m, frameCaps[f]).status = "EXCEPTION_NONE"
                /\ PTEWord(m, LookupAtMapping(m, frameCaps[f]).ptSlot) = 0
                /\ PTEWord(mem, LookupAtMapping(m, frameCaps[f]).ptSlot) # 0

\* C7: a successful PageRemap of a mapped frame F writes exactly one PTE slot,
\* the slot at which F is mapped in the address space of F's mapped ASID at
\* F's mapped address; the slot's page number is unchanged, and no other PTE
\* (in particular none of another address space) changes, whichever root
\* capability is supplied.
C7_RemapWritesOnlyOwnSlot ==
    [][(/\ ret'.capType = "cap_frame_cap"
        /\ ret'.label = "RISCVPageRemap"
        /\ ret'.status = "EXCEPTION_NONE"
        /\ MappingInPlace(mem, frameCaps[ret'.obj]))
       => LET slot == LookupAtMapping(mem, frameCaps[ret'.obj]).ptSlot IN
          /\ pte_get_ppn(PTEWord(mem', slot)) = pte_get_ppn(PTEWord(mem, slot))
          /\ \A s \in AllSlots : s # slot => PTEWord(mem', s) = PTEWord(mem, s)]_vars

\* the capabilities a PageMap message can carry, the addresses it can request
PageMapExtraCaps == PTExtraCaps \cup {FrameExtraCap}
PageMapVAddrs == AlignedVAddrs \cup OddVAddrs

\* C8: PageMap (a message with its three arguments and a capability) on a frame
\* capability that is mapped at V1, requesting a vaddr V2 different from V1,
\* fails with InvalidCapability and leaves page tables, the frame capability
\* and every other kernel object unchanged.
C8_MapElsewhereRejected ==
    CanInvoke =>
    \A f \in SmallFramePages \cup MegaFramePages, e \in PageMapExtraCaps,
       v \in PageMapVAddrs, ra \in RightsAttrs :
       LET cap == frameCaps[f]
           o == decodeRISCVFrameInvocation("RISCVPageMap", 3, f, e, v, ra.rightsMask, ra.attr)
       IN
       (cap.capFMappedASID # asidInvalid /\ v # cap.capFMappedAddress)
       => /\ o.status = "EXCEPTION_SYSCALL_ERROR"
          /\ o.err.type = "seL4_InvalidCapability"
          /\ o.mems = {mem}
          /\ o.frameCaps = frameCaps
          /\ o.ptCaps = ptCaps
          /\ o.poolCaps = poolCaps
          /\ o.asidPools = asidPools
          /\ o.riscvKSASIDTable = riscvKSASIDTable
          /\ o.tstate = ksCurThreadState

\* C8 case: a PageMap of a frame whose mapping is in place was refused with
\* InvalidCapability for the frame capability itself
C8_Witness ==
    /\ ret.capType = "cap_frame_cap"
    /\ ret.label = "RISCVPageMap"
    /\ ret.status = "EXCEPTION_SYSCALL_ERROR"
    /\ current_syscall_error = SyscallError("seL4_InvalidCapability", 0)
    /\ MappingInPlace(mem, frameCaps[ret.obj])

\* the addresses walked: every index at every level, aligned or not
WalkVAddrs == {VAddr(i1, i2, off) : i1 \in 0 .. PTEntries - 1, i2 \in 0 .. PTEntries - 1,
                                    off \in {0, 8}}

\* C9 as stated: for every virtual address and every level L, walking an empty
\* root to level L returns a MissingCapability lookup fault sized to level L's
\* page granularity, never success.
C9_EmptyRootFaultsAtLevel ==
    \A p \in PTPages, v \in WalkVAddrs, L \in 1 .. CONFIG_PT_LEVELS :
       mem[p] = ZeroPage
       => LET lu_ret == lookupPTSlot(mem, PagePtr(p), v, L) IN
          /\ lu_ret.status = "EXCEPTION_LOOKUP_FAULT"
          /\ lu_ret.lf = lookup_fault_missing_capability_new(RISCV_GET_LVL_PGSIZE_BITS(L))

\* C9 amended: walking a root whose entry for the address is empty returns, to
\* level 1, success with the root's slot for the address (the final slot is
\* never inspected) and, to a deeper level L, a MissingCapability lookup fault
\* sized to level 1's page granularity (the level of the empty entry at which
\* the walk stopped), with L = 2 reported as the missing level.
C9_EmptyRootWalk ==
    (ret = NoRet) =>
    \A p \in PTPages, v \in WalkVAddrs, L \in 1 .. CONFIG_PT_LEVELS :
       LET rootSlot == Slot(PagePtr(p), RISCV_GET_PT_INDEX(v, 1))
           lu_ret == lookupPTSlot(mem, PagePtr(p), v, L)
       IN
       PTEWord(mem, rootSlot) = 0
       => IF L = 1
          THEN lu_ret.status = "EXCEPTION_NONE" /\ lu_ret.ptSlot = rootSlot
          ELSE /\ lu_ret.status = "EXCEPTION_LOOKUP_FAULT"
               /\ lu_ret.lf = lookup_fault_missing_capability_new(RISCV_GET_LVL_PGSIZE_BITS(1))
               /\ lu_ret.missingPTLevel = 2
               /\ lu_ret.ptSlot = rootSlot

\* C9 case: a PageMap of a 4K frame walked a bound root without second-level
\* table and was refused with the walker's fault, sized to level 1
C9_Witness ==
    /\ ret.capType = "cap_frame_cap"
    /\ ret.label = "RISCVPageMap"
    /\ ret.obj \in SmallFramePages
    /\ ret.status = "EXCEPTION_SYSCALL_ERROR"
    /\ current_syscall_error.type = "seL4_FailedLookup"
    /\ current_lookup_fault =
           lookup_fault_missing_capability_new(RISCV_GET_LVL_PGSIZE_BITS(1))
    /\ \E p \in PTPages : /\ isVTableRoot(ptCaps[p])
                          /\ mem[p][0] = 0
                          /\ lookupPTSlot(mem, PagePtr(p), 0, 1).status = "EXCEPTION_NONE"

\* C10: a PageMap whose destination range reaches the kernel boundary
\* (vaddr + frame size - 1 >= kernelBase), for a frame not mapped elsewhere and
\* a valid root capability, is rejected with InvalidArgument (argument 0) in
\* every state of the root's tables; no assertion trips and nothing changes.
C10_KernelRangeRejected ==
    CanInvoke =>
    \A f \in SmallFramePages \cup MegaFramePages, e \in PTExtraCaps,
       v \in PageMapVAddrs, ra \in RightsAttrs :
       LET cap == frameCaps[f]
           o == decodeRISCVFrameInvocation("RISCVPageMap", 3, f, e, v, ra.rightsMask, ra.attr)
       IN
       (/\ v + BIT(pageBitsForSize(cap.capFSize)) - 1 >= kernelBase
        /\ ~mappedAtOtherAddress(cap, v)
        /\ isVTableRoot(ExtraCap(e)))
       => /\ o.status = "EXCEPTION_SYSCALL_ERROR"
          /\ o.err = SyscallError("seL4_InvalidArgument", 0)
          /\ o.mems = {mem}

\* the slot at which a walk of the hierarchy along vptr ends: the walk stands
\* at ptSlot of level i and descends through valid table pointers only
RECURSIVE WalkEnd(_, _, _, _)
WalkEnd(m, ptSlot, vptr, i) ==
    IF i >= CONFIG_PT_LEVELS \/ ~isValidHWPageTable(PTEWord(m, ptSlot))
    THEN ptSlot
    ELSE WalkEnd(m, Slot(getPPtrFromHWPTE(PTEWord(m, ptSlot)),
                         RISCV_GET_PT_INDEX(vptr, i + 1)), vptr, i + 1)

\* user addresses a page table can be asked to be mapped at
UserVAddrs == {VAddr(0, i2, 0) : i2 \in 0 .. PTEntries - 1}

\* C11: PageTableMap never overwrites a non-zero PTE: whenever the walk of the
\* root along vaddr ends at an occupied slot (a frame leaf at any level
\* included), the decode fails with DeleteFirst and no PTE or capability
\* changes.
C11_PageTableMapNeverOverwrites ==
    CanInvoke =>
    \A p \in PTPages, e \in PTExtraCaps, v \in UserVAddrs :
       LET root == ExtraCap(e)
           end == WalkEnd(mem, Slot(root.capPTBasePtr, RISCV_GET_PT_INDEX(v, 1)), v, 1)
           o == decodeRISCVPageTableInvocation("RISCVPageTableMap", 2, p, e, v)
       IN
       (/\ ~isVTableRoot(ptCaps[p])
        /\ isValidNativeRoot(root)
        /\ PTEWord(mem, end) # 0)
       => /\ o.status = "EXCEPTION_SYSCALL_ERROR"
          /\ o.err.type = "seL4_DeleteFirst"
          /\ o.mems = {mem}
          /\ o.ptCaps = ptCaps
          /\ o.frameCaps = frameCaps

\* the ASIDs under which the registry holds table p as a VSpace root
BoundASIDs(p) ==
    {a \in 0 .. BIT(asidHighBits + asidLowBits) - 1 :
        /\ riscvKSASIDTable[SHR(a, asidLowBits)] # NULL
        /\ asidPools[riscvKSASIDTable[SHR(a, asidLowBits)]][LOWBITS(a, asidLowBits)]
               = PagePtr(p)}
BoundRoot(p) == BoundASIDs(p) # {}

\* the outcome o is a syscall error that changes no kernel object
FailsUnchanged(o, type, num) ==
    /\ o.status = "EXCEPTION_SYSCALL_ERROR"
    /\ o.err = SyscallError(type, num)
    /\ o.mems = {mem}
    /\ o.ptCaps = ptCaps
    /\ o.frameCaps = frameCaps
    /\ o.poolCaps = poolCaps
    /\ o.untypedHasChildren = untypedHasChildren
    /\ o.riscvKSASIDTable = riscvKSASIDTable
    /\ o.asidPools = asidPools
    /\ o.tstate = ksCurThreadState

\* C12: a PageTableMap or PageTableUnmap invoked on the capability of a table
\* that is a bound VSpace root fails with IllegalOperation and changes no
\* state (the root is never zeroed); a PageTableMap of another table under a
\* bound root with vaddr >= kernelBase fails with InvalidArgument (argument 0).
C12_RootInvocationsRejected ==
    CanInvoke =>
    \A p \in PTPages :
       /\ BoundRoot(p)
          => /\ FailsUnchanged(decodeRISCVPageTableInvocation(
                                   "RISCVPageTableUnmap", 0, p, NoExtraCap, 0),
                               "seL4_IllegalOperation", 0)
             /\ \A i \in PageTableMapInputs :
                   FailsUnchanged(decodeRISCVPageTableInvocation(
                                      "RISCVPageTableMap", i.length, p, i.excap, i.vaddr),
                                  "seL4_IllegalOperation", 0)
       /\ ~BoundRoot(p)
          => \A e \in PTExtraCaps, v \in {kernelBase, kernelBase + BIT(seL4_PageBits),
                                          BIT(VABits) - 8} :
                (BoundRoot(e.obj) /\ ExtraCap(e).capPTIsMapped = 1)
                => FailsUnchanged(decodeRISCVPageTableInvocation(
                                      "RISCVPageTableMap", 2, p, e, v),
                                  "seL4_InvalidArgument", 0)

\* C12 case: a PageTableUnmap on a bound root was refused with
\* IllegalOperation and the root still holds its kernel-window entries
C12_Witness ==
    /\ ret.capType = "cap_page_table_cap"
    /\ ret.label = "RISCVPageTableUnmap"
    /\ ret.status = "EXCEPTION_SYSCALL_ERROR"
    /\ current_syscall_error.type = "seL4_IllegalOperation"
    /\ BoundRoot(ret.obj)
    /\ mem[ret.obj] # ZeroPage

\* C13: a PageMap of a 4K frame (not mapped elsewhere) under a bound root at a
\* vaddr whose level-1 entry is empty, so that the table on the path to the
\* frame's level is absent, fails with FailedLookup and the walker's
\* MissingCapability fault; no table is created, no PTE is written and the
\* frame capability stays as it was.
C13_MissingTableIsLookupFailure ==
    CanInvoke =>
    \A f \in SmallFramePages, e \in PTExtraCaps, v \in PageMapVAddrs, ra \in RightsAttrs :
       LET cap == frameCaps[f]
           rootSlot == Slot(ExtraCap(e).capPTBasePtr, RISCV_GET_PT_INDEX(v, 1))
           o == decodeRISCVFrameInvocation("RISCVPageMap", 3, f, e, v, ra.rightsMask, ra.attr)
       IN
       (/\ BoundRoot(e.obj)
        /\ ExtraCap(e).capPTMappedASID \in BoundASIDs(e.obj)
        /\ cap.capFMappedASID = asidInvalid \/ cap.capFMappedAddress = v
        /\ PTEWord(mem, rootSlot) = 0)
       => /\ FailsUnchanged(o, "seL4_FailedLookup", 0)
          /\ o.lf.type = "missing_capability"

\* C13 case: a PageMap of an unmapped 4K frame under a bound root without
\* second-level table was refused with FailedLookup
C13_Witness ==
    /\ ret.capType = "cap_frame_cap"
    /\ ret.label = "RISCVPageMap"
    /\ ret.obj \in SmallFramePages
    /\ ret.status = "EXCEPTION_SYSCALL_ERROR"
    /\ current_syscall_error.type = "seL4_FailedLookup"
    /\ current_lookup_fault.type = "missing_capability"
    /\ frameCaps[ret.obj].capFMappedASID = asidInvalid
    /\ \E p \in PTPages : BoundRoot(p) /\ mem[p][0] = 0
    /\ \A p \in PTPages : ptCaps[p].capPTIsMapped = 1 => BoundRoot(p)

\* the slots of the pool with base ASID base that can be assigned: all whose
\* ASID is not the invalid ASID
AssignableSlots(base) == {i \in 0 .. BIT(asidLowBits) - 1 : base + i # asidInvalid}

\* C14: when every entry of the ASID table holds a pool, a well-formed
\* ASIDControlMakePool fails with DeleteFirst; when every assignable slot of
\* the pool invoked holds a root, a well-formed ASIDPoolAssign fails with
\* DeleteFirst; nothing changes in either case.
C14_ExhaustionIsDeleteFirst ==
    CanInvoke =>
    /\ (\A i \in 0 .. nASIDPools - 1 : riscvKSASIDTable[i] # NULL)
       => \A u \in PoolPages, index \in {0} \cup PoolSlots :
             FailsUnchanged(decodeASIDControl("RISCVASIDControlMakePool", 2,
                                [kind |-> "untyped", obj |-> u], TRUE, index),
                            "seL4_DeleteFirst", 0)
    /\ \A s \in PoolSlots, e \in PTExtraCaps :
          (/\ poolCaps[s] # NullCap
           /\ riscvKSASIDTable[SHR(poolCaps[s].capASIDBase, asidLowBits)]
                  = poolCaps[s].capASIDPool
           /\ ExtraCap(e).capPTMappedASID = asidInvalid
           /\ \A i \in AssignableSlots(poolCaps[s].capASIDBase) :
                 asidPools[poolCaps[s].capASIDPool][i] # NULL)
          => FailsUnchanged(decodeASIDPool("RISCVASIDPoolAssign", s, e),
                            "seL4_DeleteFirst", 0)

\* C14 case: with a pool in every entry of the ASID table, an ASIDPoolAssign
\* on a pool without free assignable slot was refused with DeleteFirst
C14_Witness ==
    /\ ret.capType = "cap_asid_pool_cap"
    /\ ret.label = "RISCVASIDPoolAssign"
    /\ ret.status = "EXCEPTION_SYSCALL_ERROR"
    /\ current_syscall_error.type = "seL4_DeleteFirst"
    /\ \A i \in 0 .. nASIDPools - 1 : riscvKSASIDTable[i] # NULL
    /\ \A i \in AssignableSlots(poolCaps[ret.obj].capASIDBase) :
          asidPools[poolCaps[ret.obj].capASIDPool][i] # NULL

\* the free assignable slots of the pool of capability cap
FreeSlots(cap) ==
    {i \in AssignableSlots(cap.capASIDBase) : asidPools[cap.capASIDPool][i] = NULL}
\* the ASID of the lowest-indexed free assignable slot of the pool
LowestFreeASID(cap) ==
    IF FreeSlots(cap) = {} THEN asidInvalid
    ELSE cap.capASIDBase + (CHOOSE i \in FreeSlots(cap) : \A j \in FreeSlots(cap) : i <= j)

\* a successful ASIDPoolAssign on the pool capability in slot ret'.obj
PoolAssignSucceeded ==
    /\ ret'.capType = "cap_asid_pool_cap"
    /\ ret'.label = "RISCVASIDPoolAssign"
    /\ ret'.status = "EXCEPTION_NONE"

\* C15: after a successful ASIDPoolAssign of root capability C to pool P the
\* chosen ASID is the lowest-indexed free assignable ASID of P, resolving it
\* through the registry returns C's base table, C carries that ASID with its
\* mapped flag set, and no other pool slot (and no ASID-table entry) changes.
C15_AssignBindsLowestFree ==
    [][\A s \in {x \in PoolSlots : poolCaps[x] # NullCap} :
       (PoolAssignSucceeded /\ ret'.obj = s)
       => LET P == poolCaps[s] IN
          /\ FreeSlots(P) # {}
          /\ \E p \in PTPages, a \in 0 .. BIT(asidLowBits + asidHighBits) - 1 :
                /\ a = LowestFreeASID(P)
                /\ ptCaps[p].capPTMappedASID = asidInvalid
                /\ ptCaps' = [ptCaps EXCEPT ![p] = [ptCaps[p] EXCEPT
                                 !.capPTMappedASID = a, !.capPTIsMapped = 1]]
                /\ findVSpaceForASID(a)'
                     = [status |-> "EXCEPTION_NONE",
                        vspace_root |-> ptCaps[p].capPTBasePtr, lf |-> NoFault]
                /\ asidPools' = [asidPools EXCEPT
                      ![P.capASIDPool][LOWBITS(a, asidLowBits)] = ptCaps[p].capPTBasePtr]
          /\ riscvKSASIDTable' = riscvKSASIDTable]_vars

\* C15 case: an ASIDPoolAssign has bound a root in the pool that already
\* holds another one, so that the lowest free slot was not the pool's first
C15_Witness ==
    /\ ret.capType = "cap_asid_pool_cap"
    /\ ret.label = "RISCVASIDPoolAssign"
    /\ ret.status = "EXCEPTION_NONE"
    /\ \A i \in AssignableSlots(poolCaps[ret.obj].capASIDBase) :
          asidPools[poolCaps[ret.obj].capASIDPool][i] # NULL
    /\ Cardinality(AssignableSlots(poolCaps[ret.obj].capASIDBase)) > 1

\* C16 as stated: slot 0 of every ASID pool is reserved: array slot 0 of
\* every pool, whatever the pool's base ASID, is always empty
C16_SlotZeroOfEveryPoolEmpty ==
    \A pool \in PoolPtrs : asidPools[pool][0] = NULL

\* C16: only ASID 0 is reserved: the slot of asidInvalid in the pool
\* registered for the high bits of asidInvalid is always empty, and no
\* page-table capability that is marked mapped carries asidInvalid
C16_OnlyInvalidASIDReserved ==
    /\ riscvKSASIDTable[SHR(asidInvalid, asidLowBits)] # NULL
       => asidPools[riscvKSASIDTable[SHR(asidInvalid, asidLowBits)]]
                   [LOWBITS(asidInvalid, asidLowBits)] = NULL
    /\ \A p \in PTPages :
          ptCaps[p].capPTIsMapped = 1 => ptCaps[p].capPTMappedASID # asidInvalid

\* C16 case: an ASIDPoolAssign on the pool that holds asidInvalid has bound a
\* root while slot 0 of a pool with a nonzero base is occupied
C16_Witness ==
    /\ ret.capType = "cap_asid_pool_cap"
    /\ ret.label = "RISCVASIDPoolAssign"
    /\ ret.status = "EXCEPTION_NONE"
    /\ poolCaps[ret.obj].capASIDBase = asidInvalid
    /\ \E i \in 1 .. BIT(asidLowBits) - 1 :
          asidPools[poolCaps[ret.obj].capASIDPool][i] # NULL
    /\ \E pool \in PoolPtrs : asidPools[pool][0] # NULL

\* the step is a call of deleteASIDPool, of deleteASID
IsDeleteASIDPool == ret'.label = "deleteASIDPool"
IsDeleteASID == ret'.label = "deleteASID"
\* the root the registry stores for asid in table t and pools ps, NULL
\* when the pool is absent
StoredRoot(t, ps, asid) ==
    IF t[SHR(asid, asidLowBits)] = NULL THEN NULL
    ELSE ps[t[SHR(asid, asidLowBits)]][LOWBITS(asid, asidLowBits)]

\* C18: deleteASIDPool(base, pool) and deleteASID(asid, root) clear the
\* stored pointer only when it still equals the pointer passed in (and then
\* clear exactly that pointer); when the registry holds a different pointer,
\* or for deleteASID the pool is absent, the ASID table, all pools and the
\* hardware translation root are left exactly as they were
C18_StaleDeletionChangesNothing ==
    [][/\ IsDeleteASIDPool
          => IF riscvKSASIDTable[SHR(ret'.obj, asidLowBits)] = ret'.ptr
             THEN /\ riscvKSASIDTable' =
                        [riscvKSASIDTable EXCEPT ![SHR(ret'.obj, asidLowBits)] = NULL]
                  /\ asidPools' = asidPools
             ELSE UNCHANGED <<riscvKSASIDTable, asidPools, satp>>
       /\ IsDeleteASID
          => IF /\ riscvKSASIDTable[SHR(ret'.obj, asidLowBits)] # NULL
                /\ StoredRoot(riscvKSASIDTable, asidPools, ret'.obj) = ret'.ptr
             THEN /\ riscvKSASIDTable' = riscvKSASIDTable
                  /\ asidPools' =
                        [asidPools EXCEPT
                            ![riscvKSASIDTable[SHR(ret'.obj, asidLowBits)]]
                             [LOWBITS(ret'.obj, asidLowBits)] = NULL]
             ELSE UNCHANGED <<riscvKSASIDTable, asidPools, satp>>]_vars

\* C18 case: deleteASID has been called with a root other than the one the
\* registry stores for the ASID, and deleteASIDPool could be called with a
\* pool other than the registered one
C18_Witness ==
    /\ ret.label = "deleteASID"
    /\ StoredRoot(riscvKSASIDTable, asidPools, ret.obj) \notin {NULL, ret.ptr}
    /\ satp.root # addrFromPPtr(kernel_pageTables)
    /\ \E i \in 0 .. nASIDPools - 1, pool \in PoolPtrs :
          riscvKSASIDTable[i] \notin {NULL, pool}

\* the ASIDs a step removes from the registry: bound before, unbound after
RemovedASIDs ==
    {a \in ASIDs : /\ StoredRoot(riscvKSASIDTable, asidPools, a) # NULL
                   /\ StoredRoot(riscvKSASIDTable', asidPools', a) = NULL}

C20_TranslationRootIsBound ==
    \/ satp.root = addrFromPPtr(kernel_pageTables)
    \/ /\ tcbVTable.capType = "cap_page_table_cap"
       /\ StoredRoot(riscvKSASIDTable, asidPools, tcbVTable.capPTMappedASID)
             = ptrFromPAddr(satp.root)

\* C20 case: deleteASID has removed the binding of the root the current
\* thread is on, its ASID has been flushed and the register holds the
\* kernel's table, while entries of other ASIDs are cached
C20_Witness ==
    /\ ret.label = "deleteASID"
    /\ tcbVTable.capType = "cap_page_table_cap"
    /\ tcbVTable.capPTBasePtr = ret.ptr
    /\ tcbVTable.capPTMappedASID = ret.obj
    /\ StoredRoot(riscvKSASIDTable, asidPools, ret.obj) = NULL
    /\ satp = setVSpaceRoot(addrFromPPtr(kernel_pageTables), ret.obj)
    /\ ret.obj \notin tlb
    /\ tlb # {}

\* the three outcomes of resolving asid through the registry
ResolvesAsStated(asid) ==
    LET r == findVSpaceForASID(asid)
        pool == riscvKSASIDTable[SHR(asid, asidLowBits)]
    IN IF pool = NULL
       THEN r = [status |-> "EXCEPTION_LOOKUP_FAULT", vspace_root |-> NULL,
                 lf |-> [type |-> "invalid_root", bits |-> 0]]
       ELSE IF asidPools[pool][LOWBITS(asid, asidLowBits)] = NULL
       THEN r = [status |-> "EXCEPTION_LOOKUP_FAULT", vspace_root |-> NULL,
                 lf |-> [type |-> "missing_capability",
                         bits |-> RISCV_GET_LVL_PGSIZE_BITS(1)]]
       ELSE r = [status |-> "EXCEPTION_NONE",
                 vspace_root |-> asidPools[pool][LOWBITS(asid, asidLowBits)],
                 lf |-> NoFault]

\* C17: resolving an ASID through the registry gives exactly one of three
\* outcomes: InvalidRoot when the ASID table entry for the high bits is null,
\* MissingCapability sized to the level-1 granularity when the pool exists and
\* its slot for the low bits is null, otherwise success with the stored root;
\* a step that only resolves the current thread's ASID leaves the registry as
\* it was and the relay holds the fault of that outcome
C17_ResolutionOutcomes ==
    [][\A asid \in ASIDs :
          /\ ResolvesAsStated(asid)
          /\ ResolvesAsStated(asid)'
          /\ (/\ ret'.label = "Arch_switchToThread"
              /\ tcbVTable'.capType = "cap_page_table_cap"
              /\ tcbVTable'.capPTMappedASID = asid)
             => /\ registry' = registry
                /\ current_lookup_fault'
                      = Relay(current_lookup_fault, findVSpaceForASID(asid).lf)]_vars

\* C17 case: the current thread's ASID has been resolved in a pool that
\* exists and whose slot for it is empty, while another ASID has no pool
C17_Witness ==
    /\ ret.label = "Arch_switchToThread"
    /\ tcbVTable.capType = "cap_page_table_cap"
    /\ riscvKSASIDTable[SHR(tcbVTable.capPTMappedASID, asidLowBits)] # NULL
    /\ tcbVTable.capPTMappedASID # asidInvalid
    /\ current_lookup_fault = lookup_fault_missing_capability_new(RISCV_GET_LVL_PGSIZE_BITS(1))
    /\ \E i \in 0 .. nASIDPools - 1 : riscvKSASIDTable[i] = NULL

\* the top-level indices of the kernel window
KernelWindowIndices == RISCV_GET_PT_INDEX(kernelBase, 1) .. PTEntries - 1

\* C21: for every root bound in an ASID pool, after any sequence of user MMU
\* invocations, each top-level entry at or above the index of kernelBase
\* equals the entry of the kernel's global top-level table, which is as
\* map_kernel_window left it: no invocation writes or clears such an entry
C21_KernelWindowReplicated ==
    /\ \A i \in KernelWindowIndices : mem[KernelPTPage][i] = map_kernel_window[i]
    /\ \A p \in PTPages :
          BoundRoot(p) => \A i \in KernelWindowIndices :
                             mem[p][i] = mem[KernelPTPage][i]

\* C21 case: a PageMap has written a user entry of a bound root while
\* a second root is bound
C21_Witness ==
    /\ ret.label = "RISCVPageMap"
    /\ ret.status = "EXCEPTION_NONE"
    /\ \E p, q \in PTPages :
          /\ p # q
          /\ BoundRoot(p)
          /\ BoundRoot(q)
          /\ \E i \in 0 .. PTEntries - 1 : i \notin KernelWindowIndices /\ mem[p][i] # 0

\* every store of the event sequence ev is followed by a full fence
FencedAfterLastStore(ev) ==
    \A i \in DOMAIN ev : ev[i] = "store" => \E j \in DOMAIN ev : j > i /\ ev[j] = "sfence.vma"

\* C22: every PageTableMap, PageTableUnmap, PageMap, PageRemap and PageUnmap
\* that writes a PTE or zeroes a page table issues a full translation-cache
\* invalidation after its last such write and before it returns
C22_StoresAreFenced ==
    CanInvoke =>
       /\ \A p \in PTPages, in \in PageTableMapInputs :
             FencedAfterLastStore(
                decodeRISCVPageTableInvocation("RISCVPageTableMap", in.length, p,
                                               in.excap, in.vaddr).events)
       /\ \A p \in PTPages :
             FencedAfterLastStore(
                decodeRISCVPageTableInvocation("RISCVPageTableUnmap", 0, p,
                                               NoExtraCap, 0).events)
       /\ \A f \in FramePages, in \in PageMapInputs :
             FencedAfterLastStore(
                decodeRISCVFrameInvocation("RISCVPageMap", in.length, f, in.excap,
                                           in.vaddr, in.rightsMask, in.attr).events)
       /\ \A f \in FramePages, in \in PageRemapInputs :
             FencedAfterLastStore(
                decodeRISCVFrameInvocation("RISCVPageRemap", in.length, f, in.excap, 0,
                                           in.rightsMask, in.attr).events)
       /\ \A f \in FramePages :
             FencedAfterLastStore(
                decodeRISCVFrameInvocation("RISCVPageUnmap", 0, f, NoExtraCap, 0,
                                           NoRights, NoAttr).events)

\* the step is a VM fault of one of the types ts
IsVMFault(ts) == ret'.label = "handleVMFault" /\ ret'.ptr \in ts

\* C23 as stated: on an instruction-access or instruction-page fault the VM
\* fault translator sets the thread's next-instruction register strictly
\* above the faulting program counter; on load and store faults it leaves
\* every thread register unchanged
C23_InstructionFaultAdvancesPC ==
    [][/\ IsVMFault({"RISCVInstructionPageFault", "RISCVInstructionAccessFault"})
          => regs'.NEXTPC > ret'.pc
       /\ IsVMFault({"RISCVLoadPageFault", "RISCVLoadAccessFault",
                     "RISCVStorePageFault", "RISCVStoreAccessFault"})
          => regs' = [ret'.was EXCEPT !.SEPC = ret'.pc]]_vars

\* C23: on an instruction-access or instruction-page fault the VM fault
\* translator sets the thread's next-instruction register to the faulting
\* program counter (the instruction is fetched again on restart) and raises
\* an instruction VM fault with the faulting address; on load and store
\* faults it leaves every thread register unchanged
C23_InstructionFaultRestartsAtPC ==
    [][/\ IsVMFault({"RISCVInstructionPageFault", "RISCVInstructionAccessFault"})
          => /\ regs' = [SEPC |-> ret'.pc, NEXTPC |-> ret'.pc]
             /\ current_fault' = [type |-> "seL4_Fault_VMFault", address |-> ret'.obj,
                                  FSR |-> "RISCVInstructionAccessFault",
                                  instructionFault |-> TRUE]
             /\ ret'.status = "EXCEPTION_FAULT"
       /\ IsVMFault({"RISCVLoadPageFault", "RISCVLoadAccessFault",
                     "RISCVStorePageFault", "RISCVStoreAccessFault"})
          => /\ regs' = [ret'.was EXCEPT !.SEPC = ret'.pc]
             /\ current_fault'.instructionFault = FALSE
             /\ ret'.status = "EXCEPTION_FAULT"]_vars

\* C23 case: an instruction page fault at a program counter other than the
\* stale next-instruction register has been translated
C23_Witness ==
    /\ ret.label = "handleVMFault"
    /\ ret.ptr = "RISCVInstructionPageFault"
    /\ ret.was.NEXTPC # ret.pc
    /\ ret.pc > 0
    /\ regs.NEXTPC = ret.pc

\* C24: in the first activation of a kernel image the new root is written to
\* the translation-root register only after the stack copy has completed, the
\* stack-initialized flag has been set and the barrier has been issued: the
\* flag is not clear when the new root becomes active.
C24_RootWrittenAfterFlagAndFence ==
    [][(ki.pc # "idle" /\ satp' # satp)
         => /\ ki.stack_p = ki.sp
            /\ ki.fenced
            /\ kImages[ki.image].kiStackInitted]_vars

\* C25: a kernel image's stack-initialized flag, once true, is true in every
\* later state: no mapRegion, cloneEntry or switchImage step clears it.
C25_StackInittedIsPermanent ==
    [][\A i \in Images : kImages[i].kiStackInitted => kImages'[i].kiStackInitted]_vars

\* an image whose flag is set has been the destination of a successful
\* cloneEntry
C25_Witness ==
    /\ ret.label = "Arch_kernelImageCloneEntry"
    /\ ret.status = "EXCEPTION_NONE"
    /\ kImages[ret.obj].kiStackInitted

\* C26: switchImage on an image whose stack-initialized flag is set writes
\* the translation-root register with the image's root and ASID and nothing
\* else: no stack word, no page table and no flag changes; stack words are
\* only ever copied for an image whose flag is clear.
C26_InittedSwitchOnlyWritesRoot ==
    [][/\ (/\ ki.pc = "idle"
           /\ ret'.label = "Arch_setKernelImage"
           /\ kImages[ret'.obj].kiStackInitted)
          => /\ satp' = [root |-> addrFromPPtr(kImages[ret'.obj].kiRoot),
                         asid |-> kImages[ret'.obj].kiASID]
             /\ kiStacks' = kiStacks
             /\ mem' = mem
             /\ kImages' = kImages
       /\ kiStacks' # kiStacks => ~kImages[ki.image].kiStackInitted]_vars

\* an image whose private stack holds a copied word has been switched to
\* again, with an empty stack, when the other image is initialised as well
C26_Witness ==
    /\ ret.label = "Arch_setKernelImage"
    /\ ret.ptr = kernelStackBase
    /\ kImages[ret.obj].kiStackInitted
    /\ kiStacks[ret.obj][kernelStackBase - 8] = kernelStack[kernelStackBase - 8]
    /\ satp = [root |-> addrFromPPtr(kImages[ret.obj].kiRoot), asid |-> kImages[ret.obj].kiASID]
    /\ \E j \in Images : j # ret.obj /\ kImages[j].kiStackInitted

\* C27: the stack-relocation loop terminates for every stack pointer at or
\* below the stack base; each round copies the next lower word to the same
\* offset of the image's private stack, the words above it having been
\* copied before; when the loop is left every word from the stack pointer up
\* to the stack base has been copied and no word below the stack pointer has;
\* the root register keeps the old root throughout.
C27_StackRelocation ==
    /\ \A sp \in StackPointers :
          (ki.pc = "copy" /\ ki.sp = sp) ~> (ki.pc = "setroot" /\ ki.sp = sp)
    /\ [][/\ kiStacks' # kiStacks
             => /\ ki.pc = "copy"
                /\ ki.stack_p - 8 >= ki.sp
                /\ kiStacks' = [kiStacks EXCEPT ![ki.image][ki.stack_p - 8] =
                                                    kernelStack[ki.stack_p - 8]]
                /\ \A a \in StackAddrs :
                      a >= ki.stack_p => kiStacks[ki.image][a] = kernelStack[a]
                /\ satp' = satp
                /\ satp.root # addrFromPPtr(kImages[ki.image].kiRoot)
          /\ (ki.pc = "copy" /\ ki'.pc # "copy")
             => \A a \in StackAddrs :
                   kiStacks[ki.image][a] = IF a >= ki.sp THEN kernelStack[a] ELSE 0]_vars

\* the loop has been left after copying a stack that is full down to its
\* last word
C27_Witness ==
    /\ ki.pc = "setroot"
    /\ ki.sp = 0
    /\ \A a \in StackAddrs : kiStacks[ki.image][a] = kernelStack[a]

\* the first word of page p after value v has been written to the first
\* word of page q
ReadAfterWrite(m, p, q, v) == [m EXCEPT ![q][0] = v][p][0]
IsCloneEntry(r, strategy) ==
    /\ r.label = "Arch_kernelImageCloneEntry"
    /\ r.status = "EXCEPTION_NONE"
    /\ r.strategy = strategy
\* after a Shared clone both images translate the address to the same page
SharedCloneAliases ==
    IsCloneEntry(ret', KIMapShared)
    => LET d == HWTranslate(mem', kImages[ret'.obj].kiRoot, ret'.ptr)
           s == HWTranslate(mem', kImages[ret'.src].kiRoot, ret'.ptr)
       IN /\ d = s
          /\ s # NoPage => \A v \in {1, 2} : ReadAfterWrite(mem', d, s, v) = v
\* after a Copied clone the destination's page holds the bytes the source's
\* page held and is another page
CopiedCloneIsPrivate(d0, s) ==
    LET d == HWTranslate(mem', kImages[ret'.obj].kiRoot, ret'.ptr)
    IN /\ d = d0
       /\ mem'[d] = mem[s]
       /\ d # s
       /\ \A v \in {1, 2} : ReadAfterWrite(mem', d, s, v) = mem'[d][0]

\* C28 as stated: a Shared clone makes both images translate the address to
\* one physical page, so that a write to the source's page is seen through
\* the destination; a Copied clone of an address the source maps leaves the
\* destination with the source's bytes in a different physical page, so that
\* a write to the source's page is not seen through the destination.
C28_SharedAliasesCopiedIsPrivate ==
    [][/\ SharedCloneAliases
       /\ \A d0 \in Pages, s \in Pages :
             (/\ IsCloneEntry(ret', KIMapCopied)
              /\ d0 = HWTranslate(mem, kImages[ret'.obj].kiRoot, ret'.ptr)
              /\ s = HWTranslate(mem, kImages[ret'.src].kiRoot, ret'.ptr))
             => CopiedCloneIsPrivate(d0, s)]_vars

\* C28, amended: as above, the Copied half only when the destination's
\* placeholder page is not the source's page already.
C28_SharedAliasesCopiedIsPrivateIfDistinct ==
    [][/\ SharedCloneAliases
       /\ \A d0 \in Pages, s \in Pages :
             (/\ IsCloneEntry(ret', KIMapCopied)
              /\ d0 = HWTranslate(mem, kImages[ret'.obj].kiRoot, ret'.ptr)
              /\ s = HWTranslate(mem, kImages[ret'.src].kiRoot, ret'.ptr)
              /\ d0 # s)
             => CopiedCloneIsPrivate(d0, s)]_vars

\* a Copied clone has filled the destination's own page with the non-zero
\* bytes of the source's page
C28_Witness ==
    /\ IsCloneEntry(ret, KIMapCopied)
    /\ LET d == HWTranslate(mem, kImages[ret.obj].kiRoot, ret.ptr)
           s == HWTranslate(mem, kImages[ret.src].kiRoot, ret.ptr)
       IN /\ d \in KIDataPages
          /\ s \in KIDataPages
          /\ d # s
          /\ mem[s][0] # 0
          /\ mem[d] = mem[s]

IsWalk(r) == r.label = "lookupPTSlot"
\* the first all-zero entry on the path of vptr from slot, a level-i entry,
\* among the entries above level ptLevel: its slot and level, level 0 when
\* there is none before the path ends
RECURSIVE FirstAbsent(_, _, _, _, _)
FirstAbsent(m, slot, vptr, i, ptLevel) ==
    IF i >= ptLevel THEN [slot |-> slot, level |-> 0]
    ELSE IF PTEWord(m, slot) = 0 THEN [slot |-> slot, level |-> i]
    ELSE IF ~isValidHWPageTable(PTEWord(m, slot)) THEN [slot |-> slot, level |-> 0]
    ELSE FirstAbsent(m, Slot(PagePtr(pte_get_ppn(PTEWord(m, slot))),
                             RISCV_GET_PT_INDEX(vptr, i + 1)), vptr, i + 1, ptLevel)

\* C29: a walk fails on an absent entry exactly when an all-zero entry lies
\* on its path above the requested level; it then stops at the first such
\* entry, reports a MissingCapability fault whose size is the page
\* granularity of the level of the table holding the entry, and returns the
\* entry's slot; a walk to level 1 succeeds with the top-level slot whatever
\* that slot holds.
C29_WalkStopsAtFirstAbsentEntry ==
    IsWalk(ret)
    => LET top == Slot(ret.obj, RISCV_GET_PT_INDEX(ret.ptr, 1))
           a == FirstAbsent(mem, top, ret.ptr, 1, ret.ptLevel)
       IN /\ ret.ptLevel = 1 => ret.status = "EXCEPTION_NONE" /\ ret.ptSlot = top
          /\ (ret.status = "EXCEPTION_LOOKUP_FAULT") = (a.level > 0)
          /\ a.level > 0
             => /\ ret.ptSlot = a.slot
                /\ PTEWord(mem, ret.ptSlot) = 0
                /\ current_lookup_fault = lookup_fault_missing_capability_new(
                                              RISCV_GET_LVL_PGSIZE_BITS(a.level))

\* a walk to the last level has failed at the root's empty slot, in a root
\* whose other slot holds a table
C29_Witness ==
    /\ IsWalk(ret)
    /\ ret.ptLevel = CONFIG_PT_LEVELS
    /\ ret.status = "EXCEPTION_LOOKUP_FAULT"
    /\ PTEWord(mem, ret.ptSlot) = 0
    /\ \E i \in 0 .. PTEntries - 1 : isValidHWPageTable(mem[PageOf(ret.obj)][i])

\* the entry is a leaf: valid with read, write or execute set
IsLeafPTE(w) ==
    pte_get_valid(w) = 1 /\ pte_get_read(w) + pte_get_write(w) + pte_get_execute(w) > 0

\* C30: a walk that meets a leaf entry above the requested level stops at
\* the leaf and returns its slot: the assertion on page-table pointers does
\* not fail and the leaf's page is not walked as a table.
C30_WalkStopsAtLeaf ==
    (/\ IsWalk(ret)
     /\ ret.ptLevel > 1
     /\ IsLeafPTE(PTEWord(mem, Slot(ret.obj, RISCV_GET_PT_INDEX(ret.ptr, 1)))))
    => /\ ret.status = "EXCEPTION_NONE"
       /\ ret.ptSlot = Slot(ret.obj, RISCV_GET_PT_INDEX(ret.ptr, 1))

IsMapRegion(r) == r.label = "Arch_kernelMemoryMap" /\ r.status = "EXCEPTION_NONE"
\* the page of the table that holds the level-l entry for addr under root
KITableAt(m, root, addr, l) ==
    IF l = 1 THEN PageOf(root)
    ELSE pte_get_ppn(m[PageOf(root)][RISCV_GET_PT_INDEX(addr, 1)])
\* the flags of an entry written at level l: a global leaf with read, write
\* and execute at the deepest level, a bare table pointer above it
KIEntryFlagsOfLevel(w, l) ==
    LET f == IF l = seL4_KernelImageNumLevels - 1 THEN 1 ELSE 0 IN
    /\ pte_get_valid(w) = 1
    /\ pte_get_global(w) = f
    /\ pte_get_read(w) = f
    /\ pte_get_write(w) = f
    /\ pte_get_execute(w) = f

\* C31: mapRegion at level 0 sets the root of an image that had none and
\* writes no table; at a deeper level it leaves the root, which is set, and
\* writes exactly one slot: the slot of the address in the table of that
\* level, invalid before, holding afterwards a valid entry that is a global
\* readable, writable, executable leaf at the deepest level and a bare
\* pointer to the next table otherwise.
C31_MapRegionWritesOneEntry ==
    [][IsMapRegion(ret')
       => IF ret'.level = 0
          THEN /\ kImages[ret'.obj].kiRoot = NULL
               /\ kImages'[ret'.obj].kiRoot # NULL
               /\ \A j \in Images \ {ret'.obj} : kImages'[j] = kImages[j]
               /\ mem' = mem
          ELSE /\ kImages[ret'.obj].kiRoot # NULL
               /\ kImages' = kImages
               /\ \A l \in 1 .. ret'.level - 1 :
                     isPTEPageTable(mem[KITableAt(mem, kImages[ret'.obj].kiRoot, ret'.ptr, l)]
                                       [RISCV_GET_PT_INDEX(ret'.ptr, l)])
               /\ \E p \in Pages, i \in 0 .. PTEntries - 1 :
                     /\ p = KITableAt(mem, kImages[ret'.obj].kiRoot, ret'.ptr, ret'.level)
                     /\ i = RISCV_GET_PT_INDEX(ret'.ptr, ret'.level)
                     /\ pte_get_valid(mem[p][i]) = 0
                     /\ KIEntryFlagsOfLevel(mem'[p][i], ret'.level)
                     /\ mem' = [mem EXCEPT ![p][i] = mem'[p][i]]]_vars

\* a region of the deepest level has been mapped under a table that
\* mapRegion installed before
C31_Witness ==
    /\ IsMapRegion(ret)
    /\ ret.level = seL4_KernelImageNumLevels - 1
    /\ LET root == kImages[ret.obj].kiRoot
           e1 == mem[PageOf(root)][RISCV_GET_PT_INDEX(ret.ptr, 1)]
       IN /\ isPTEPageTable(e1)
          /\ KIEntryFlagsOfLevel(mem[pte_get_ppn(e1)][RISCV_GET_PT_INDEX(ret.ptr, 2)], ret.level)

IsKIPTMapping(r) == r.label = "Arch_kiPTMapping" /\ r.status = "EXCEPTION_NONE"
\* the addresses of the region of addr that depth resolves
KIRegion(addr, depth) ==
    {a \in LookupVAddrs :
        SHR(a, kernelImageUntranslatedBits(depth)) = SHR(addr, kernelImageUntranslatedBits(depth))}
\* the page an entry installed at depth translates a to
KIEntryTranslate(pte, a, depth) ==
    pte_get_ppn(pte) + SHR(LOWBITS(a, kernelImageUntranslatedBits(depth)), seL4_PageBits)
\* the page offset of addr within a leaf of leafBits bits, rounded down to
\* regions of regionBits bits
KIRoundedPageOffset(addr, leafBits, regionBits) ==
    LET pageOffset == (addr % (2 ^ leafBits)) \div (2 ^ seL4_PageBits)
        pagesPerRegion == 2 ^ (regionBits - seL4_PageBits)
    IN pageOffset - (pageOffset % pagesPerRegion)

\* C32: when the source resolves the address to a leaf larger than the
\* region asked for, the entry produced has the leaf's flags and the leaf's
\* page number plus the page offset of the address within the leaf rounded
\* down to the region size, so it translates every address of the region as
\* the source does; when the source resolves at the size asked for, the
\* entry is the source's entry.
C32_SuperpageEntryTranslatesAsSource ==
    IsKIPTMapping(ret)
    => LET slot == Arch_kiLookupPTSlot(mem, ret.obj, ret.ptr, ret.depth)
           src == PTEWord(mem, slot.ptSlot)
           bits == kernelImageUntranslatedBits(ret.depth)
       IN /\ (slot.ptBitsLeft > bits /\ PTEIsLeaf(src))
             => /\ pte_set_ppn(ret.pte, 0) = pte_set_ppn(src, 0)
                /\ pte_get_ppn(ret.pte)
                      = pte_get_ppn(src) + KIRoundedPageOffset(ret.ptr, slot.ptBitsLeft, bits)
                /\ \A a \in KIRegion(ret.ptr, ret.depth) :
                      KIEntryTranslate(ret.pte, a, ret.depth) = HWTranslate(mem, ret.obj, a)
          /\ slot.ptBitsLeft = bits => ret.pte = src
          /\ \A leafBits \in seL4_PageBits + 1 .. VABits :
             \A regionBits \in seL4_PageBits .. leafBits - 1 :
                kiSuperpageOffset(ret.ptr, leafBits, regionBits)
                   = KIRoundedPageOffset(ret.ptr, leafBits, regionBits)

\* the entry of an address in the upper half of a superpage was asked for at
\* the deepest level
C32_Witness ==
    /\ IsKIPTMapping(ret)
    /\ LET slot == Arch_kiLookupPTSlot(mem, ret.obj, ret.ptr, ret.depth)
           src == PTEWord(mem, slot.ptSlot)
       IN /\ slot.ptBitsLeft > kernelImageUntranslatedBits(ret.depth)
          /\ PTEIsLeaf(src)
          /\ pte_get_ppn(ret.pte) > pte_get_ppn(src)

\* C33: every entry PageMap or PageRemap encodes is a leaf: whatever the
\* rights of the frame capability, the rights mask and the execute-never
\* attribute, it has at least one of read, write and execute set.
C33_UserPTEIsLeaf ==
    ret.label = "makeUserPTE" => PTEIsLeaf(ret.pte)

\* entry w is a valid leaf whose physical page is the base of frame g
MapsFrame(w, g) == IsLeaf(w) /\ pte_get_ppn(w) = PPN(frameCaps[g].capFBasePtr)
\* the step leaves every entry that maps a frame other than f as it is
KeepsOtherFrames(f) ==
    \A p \in PTPages, i \in 0 .. PTEntries - 1, g \in FramePages \ {f} :
        MapsFrame(mem[p][i], g) => mem'[p][i] = mem[p][i]

\* C34: PageUnmap of a frame clears an entry only if the entry maps that
\* frame: it never removes a valid mapping of a different frame.
C34_UnmapClearsOnlyOwnMapping ==
    [][(ret'.capType = "cap_frame_cap" /\ ret'.label = "RISCVPageUnmap")
       => KeepsOtherFrames(ret'.obj)]_vars

\* C35: a PageMap that succeeds never overwrites a valid entry that maps a
\* different frame.
C35_MapKeepsOtherMapping ==
    [][(ret'.capType = "cap_frame_cap" /\ ret'.label = "RISCVPageMap"
        /\ ret'.status = "EXCEPTION_NONE")
       => KeepsOtherFrames(ret'.obj)]_vars

\* the tables a root entry points to: the tables of the deepest level
DeepestTables(m) ==
    {pte_get_ppn(m[PPN(ptCaps[r].capPTBasePtr)][i]) :
        <<r, i>> \in {x \in PTPages \X (0 .. PTEntries - 1) :
                        /\ isVTableRoot(ptCaps[x[1]])
                        /\ x[2] < RISCV_GET_PT_INDEX(kernelBase, 1)
                        /\ isValidHWPageTable(m[PPN(ptCaps[x[1]].capPTBasePtr)][x[2]])}}

\* C36: PageTableMap never installs a pointer to a table in a table of the
\* deepest level: when tables exist at every level along the address, a
\* further PageTableMap does not succeed, so it writes no such table.
C36_MapNeverWritesDeepestTable ==
    [][(ret'.capType = "cap_page_table_cap" /\ ret'.label = "RISCVPageTableMap"
        /\ ret'.status = "EXCEPTION_NONE")
       => \A t \in DeepestTables(mem) \cap PTPages : mem'[t] = mem[t]]_vars

\* the table of page-table capability p cannot be found from the ASID and
\* address the capability records
TableUnfindable(p) ==
    /\ ptCaps[p].capPTIsMapped = 1
    /\ lookupPageTableLevelSlot(mem, ptCaps[p].capPTMappedASID, ptCaps[p].capPTMappedAddress,
                                ptCaps[p].capPTBasePtr).status # "EXCEPTION_NONE"

\* C37: PageTableUnmap of a capability whose table can no longer be found
\* writes no slot of any other page table.
C37_FailedUnmapWritesNoOtherTable ==
    [][(ret'.capType = "cap_page_table_cap" /\ ret'.label = "RISCVPageTableUnmap"
        /\ ret'.status = "EXCEPTION_NONE" /\ TableUnfindable(ret'.obj))
       => \A q \in Pages \ {PPN(ptCaps[ret'.obj].capPTBasePtr)} : mem'[q] = mem[q]]_vars

\* the slots of the registered ASID pools that hold root, as pairs of the
\* index of the pool in the table and the index of the slot in the pool
SlotsOfRoot(root) ==
    {x \in (0 .. nASIDPools - 1) \X (0 .. BIT(asidLowBits) - 1) :
        /\ riscvKSASIDTable[x[1]] # NULL
        /\ asidPools[riscvKSASIDTable[x[1]]][x[2]] = root}

\* C38: no root is stored in more than one slot of the ASID pools; an
\* ASIDPoolAssign of a root capability that carries an ASID is rejected with
\* InvalidCapability for capability 1; and no slot that holds a root stands
\* for the invalid ASID 0.
C38_RootBoundAtMostOnce ==
    /\ \A p \in PTPages : Cardinality(SlotsOfRoot(PagePtr(p))) <= 1
    /\ \A s \in PoolSlots, p \in PTPages :
          (poolCaps[s] # NullCap /\ ptCaps[p].capPTMappedASID # asidInvalid)
          => LET o == decodeASIDPool("RISCVASIDPoolAssign", s, [kind |-> "pt", obj |-> p])
             IN /\ o.status = "EXCEPTION_SYSCALL_ERROR"
                /\ o.err = SyscallError("seL4_InvalidCapability", 1)
    /\ \A p \in PTPages : \A x \in SlotsOfRoot(PagePtr(p)) :
          SHL(x[1], asidLowBits) + x[2] # asidInvalid

\* with two pools registered, one with a free slot, the assignment of a root
\* whose binding was deleted has just been rejected
C38_Witness ==
    /\ ret.capType = "cap_asid_pool_cap" /\ ret.label = "RISCVASIDPoolAssign"
    /\ ret.status = "EXCEPTION_SYSCALL_ERROR"
    /\ current_syscall_error = SyscallError("seL4_InvalidCapability", 1)
    /\ \A i \in 0 .. nASIDPools - 1 : riscvKSASIDTable[i] # NULL
    /\ \E p \in PTPages : /\ ptCaps[p].capPTMappedASID # asidInvalid
                          /\ SlotsOfRoot(PagePtr(p)) = {}
    /\ \E q \in PTPages : Cardinality(SlotsOfRoot(PagePtr(q))) = 1
=============================================================================
